---- MODULE Spec2Model ----
(***************************************************************************)
(* Model of the template engine of comfyui-darkil-nodes: the shared text   *)
(* utilities (nodes/utilities.py) and the variable resolver of             *)
(* TextVariableBuilder.get_variable (nodes/text/variable_builder.py; the   *)
(* closures of AdvancedVariableBuilder.get_variable are the same code).    *)
(*                                                                         *)
(* A Python str is modelled as a sequence of one-character strings.        *)
(***************************************************************************)
EXTENDS Integers, Sequences, FiniteSets, TLC

VARIABLES
    args,                 \* get_variable's arguments (switch, var_name, var_value, INPUT_VAR ...)
    now,                  \* what datetime.now().strftime gives during the call
    raw_dict,             \* RawValueMap: name -> raw value
    default_single_line,  \* DefaultValue
    resolved_cache,       \* ResolutionCache: name -> expanded value
    frames,               \* active replace_placeholders calls, outermost first
    pc,                   \* position of the call
    req,                  \* the resolve_variable call being entered
    VAR,                  \* first element of the returned tuple
    log,                  \* history: every resolve_variable request and what it returned
    ev,                   \* history: the placeholder repl handled last
    err,                  \* an exception escaped get_variable
    steps,                \* history: steps the call has taken
    fn_in,                \* pure-function specifications: the input drawn
    fn_out,               \* pure-function specifications: the result(s)
    fn_pc,                \* pure-function specifications: the stage
    pb                    \* build_prompt calls: the arguments, locals and results of each

vars == <<args, now, raw_dict, default_single_line, resolved_cache, frames, pc,
          req, VAR, log, ev, err, steps, fn_in, fn_out, fn_pc, pb>>

callVars == <<args, now, raw_dict, default_single_line, resolved_cache, frames, pc,
              req, VAR, log, ev, err, steps>>

fnVars == <<fn_in, fn_out, fn_pc>>

(***************************************************************************)
(* Python str primitives                                                   *)
(***************************************************************************)
EmptyStr == <<>>

UpperLetters == <<"A","B","C","D","E","F","G","H","I","J","K","L","M",
                  "N","O","P","Q","R","S","T","U","V","W","X","Y","Z">>

LowerLetters == <<"a","b","c","d","e","f","g","h","i","j","k","l","m",
                  "n","o","p","q","r","s","t","u","v","w","x","y","z">>

LowerChar(c) ==
    IF \E i \in 1..26 : UpperLetters[i] = c
    THEN LowerLetters[CHOOSE i \in 1..26 : UpperLetters[i] = c]
    ELSE c

UpperChar(c) ==
    IF \E i \in 1..26 : LowerLetters[i] = c
    THEN UpperLetters[CHOOSE i \in 1..26 : LowerLetters[i] = c]
    ELSE c

\* str.lower()
Lower(s) == [i \in 1..Len(s) |-> LowerChar(s[i])]

\* str.upper()
Upper(s) == [i \in 1..Len(s) |-> UpperChar(s[i])]

\* the characters str.strip() removes
IsSpace(c) == c \in {" ", "\t", "\n", "\r"}

\* str.strip()
Strip(s) ==
    LET keep == {i \in 1..Len(s) : ~IsSpace(s[i])}
    IN  IF keep = {} THEN EmptyStr
        ELSE LET lo == CHOOSE i \in keep : \A j \in keep : i <= j
                 hi == CHOOSE i \in keep : \A j \in keep : j <= i
             IN  SubSeq(s, lo, hi)

\* sub occurs in s at index i
OccursAt(s, sub, i) ==
    /\ i >= 1
    /\ i + Len(sub) - 1 <= Len(s)
    /\ \A k \in 1..Len(sub) : s[i + k - 1] = sub[k]

\* str.find(sub) + 1 (0 when absent)
Find(s, sub) ==
    LET hits == {i \in 1..Len(s) : OccursAt(s, sub, i)}
    IN  IF hits = {} THEN 0 ELSE CHOOSE i \in hits : \A j \in hits : i <= j

\* `sub in s`
Contains(s, sub) == \E i \in 1..(Len(s) + 1) : OccursAt(s, sub, i)

\* str.startswith(p)
StartsWith(s, p) == OccursAt(s, p, 1)

\* the text after index i
From(s, i) == SubSeq(s, i, Len(s))

RECURSIVE Split(_, _)
\* str.split(sep), sep non-empty
Split(s, sep) ==
    LET i == Find(s, sep)
    IN  IF i = 0 THEN <<s>>
        ELSE <<SubSeq(s, 1, i - 1)>> \o Split(From(s, i + Len(sep)), sep)

\* str.split(sep, 1)
Split1(s, sep) ==
    LET i == Find(s, sep)
    IN  IF i = 0 THEN <<s>>
        ELSE <<SubSeq(s, 1, i - 1), From(s, i + Len(sep))>>

RECURSIVE Join(_, _)
\* sep.join(parts)
Join(parts, sep) ==
    IF Len(parts) = 0 THEN EmptyStr
    ELSE IF Len(parts) = 1 THEN parts[1]
    ELSE parts[1] \o sep \o Join(Tail(parts), sep)

RECURSIVE SplitLines(_)
\* str.splitlines(): breaks at \n, \r and \r\n; no empty last line
SplitLines(s) ==
    LET brk == {i \in 1..Len(s) : s[i] \in {"\n", "\r"}}
    IN  IF Len(s) = 0 THEN <<>>
        ELSE IF brk = {} THEN <<s>>
        ELSE LET i == CHOOSE k \in brk : \A j \in brk : k <= j
                 w == IF s[i] = "\r" /\ i < Len(s) /\ s[i + 1] = "\n" THEN 2 ELSE 1
             IN  <<SubSeq(s, 1, i - 1)>> \o SplitLines(From(s, i + w))

(***************************************************************************)
(* Comment stripper (utilities.py)                                         *)
(***************************************************************************)
RECURSIVE remove_multiline_comments(_)
\* re.sub(r"/\*.*?\*/", "", text, flags=re.DOTALL)
remove_multiline_comments(text) ==
    LET open == Find(text, <<"/", "*">>)
    IN  IF open = 0 THEN text
        ELSE LET tail == From(text, open + 2)
                 close == Find(tail, <<"*", "/">>)
             IN  IF close = 0 THEN text
                 ELSE SubSeq(text, 1, open - 1)
                        \o remove_multiline_comments(From(tail, close + 2))

\* line.split("#", 1)[0]
BeforeHash(line) == Split1(line, <<"#">>)[1]

remove_singleline_comments(text) ==
    LET lines == SplitLines(text)
    IN  Join([i \in 1..Len(lines) |-> BeforeHash(lines[i])], <<"\n">>)

strip_all_comments(text) ==
    remove_singleline_comments(remove_multiline_comments(text))

(***************************************************************************)
(* Input lines (utilities.py)                                              *)
(***************************************************************************)
\* INPUT_VAR as Python passes it: a list of strings, or one string
List(lines) == [type |-> "list", items |-> lines]
Str(text) == [type |-> "str", items |-> <<text>>]

IsBlank(c) == c \in {" ", "\t"}
IsNewline(c) == c \in {"\n", "\r"}

\* the third positional argument of re.split is maxsplit: re.I + re.M
re_I == 2
re_M == 8

\* a match of [ \t]*[\n\r]+[ \t]* starts at index i of s
BreakAt(s, i) ==
    \E j \in i..Len(s) :
        /\ IsNewline(s[j])
        /\ \A k \in i..(j - 1) : IsBlank(s[k])

\* the last index of the run of blanks that starts at i (i - 1 if there is none)
BlankRunEnd(s, i) ==
    CHOOSE e \in (i - 1)..Len(s) :
        /\ \A k \in i..e : IsBlank(s[k])
        /\ (e < Len(s) => ~IsBlank(s[e + 1]))

\* the last index of the run of line breaks that starts at i
NewlineRunEnd(s, i) ==
    CHOOSE e \in (i - 1)..Len(s) :
        /\ \A k \in i..e : IsNewline(s[k])
        /\ (e < Len(s) => ~IsNewline(s[e + 1]))

\* the last index of the match that starts at i: the quantifiers are greedy
BreakEnd(s, i) == BlankRunEnd(s, NewlineRunEnd(s, BlankRunEnd(s, i) + 1) + 1)

\* re.split(r"[ \t]*[\n\r]+[ \t]*", s, maxsplit)
RECURSIVE ReSplit(_, _)
ReSplit(s, maxsplit) ==
    LET starts == {i \in 1..Len(s) : BreakAt(s, i)}
    IN  IF maxsplit = 0 \/ starts = {} THEN <<s>>
        ELSE LET i == CHOOSE a \in starts : \A b \in starts : a <= b
             IN  <<SubSeq(s, 1, i - 1)>> \o ReSplit(From(s, BreakEnd(s, i) + 1), maxsplit - 1)

\* split_input_lines, for a string with a line break, another string, a list
split_input_lines(inp) ==
    IF inp.type = "str"
    THEN IF \E k \in 1..Len(inp.items[1]) : IsNewline(inp.items[1][k])
         THEN ReSplit(inp.items[1], re_I + re_M)
         ELSE <<Strip(inp.items[1])>>
    ELSE [i \in 1..Len(inp.items) |-> Strip(inp.items[i])]

\* dict.get(key, "")
Get(d, key) == IF key \in DOMAIN d THEN d[key] ELSE EmptyStr

\* d[key] = val
Put(d, key, val) == (key :> val) @@ d

EmptyDict == [k \in {} |-> EmptyStr]

NoLines == [raw |-> EmptyDict, default_value |-> EmptyStr]

\* the body of parse_input_lines' loop, for one line: what the line assigns
ParseLine(line) ==
    IF Len(line) = 0 THEN NoLines
    ELSE IF Contains(line, <<"=">>)
    THEN [raw |-> Put(EmptyDict, Strip(Split1(line, <<"=">>)[1]),
                      Strip(Split1(line, <<"=">>)[2])),
          default_value |-> EmptyStr]
    ELSE [raw |-> EmptyDict, default_value |-> line]

\* assignments in which the earlier ones stay
Assigned_FirstWins(earlier, later) ==
    [raw |-> earlier.raw @@ later.raw,
     default_value |-> IF Len(earlier.default_value) > 0 THEN earlier.default_value
                       ELSE later.default_value]

\* the assignments of earlier lines followed by those of later lines: `raw[name] = val`
\* and `default_value = line` overwrite
Assigned(earlier, later) ==
    [raw |-> later.raw @@ earlier.raw,
     default_value |-> IF Len(later.default_value) > 0 THEN later.default_value
                       ELSE earlier.default_value]

\* `for line in lines`, over lines[lo..hi] in order: the first half, then the second
RECURSIVE ParseLoop(_, _, _)
ParseLoop(lines, lo, hi) ==
    IF lo > hi THEN NoLines
    ELSE IF lo = hi THEN ParseLine(lines[lo])
    ELSE Assigned(ParseLoop(lines, lo, (lo + hi) \div 2),
                  ParseLoop(lines, ((lo + hi) \div 2) + 1, hi))

parse_input_lines(lines) == ParseLoop(lines, 1, Len(lines))

(***************************************************************************)
(* Variant chooser and boolean evaluator (utilities.py)                    *)
(***************************************************************************)
\* [p.strip() for p in value.split("|")]
VariantParts(value) ==
    LET parts == Split(value, <<"|">>)
    IN  [i \in 1..Len(parts) |-> Strip(parts[i])]

\* random.choice(parts), the draw being r
choose_variant(value, r) ==
    LET parts == VariantParts(value)
    IN  parts[(r % Len(parts)) + 1]

sTrue == <<"t","r","u","e">>
sFalse == <<"f","a","l","s","e">>
sNone == <<"n","o","n","e">>
sDefault == <<"d","e","f","a","u","l","t">>
sDef == <<"d","e","f">>
sUnderscore == <<"_">>

\* chosen.lower() not in {"", "0", "false", "none"}
Truthy(chosen) == Lower(chosen) \notin {EmptyStr, <<"0">>, sFalse, sNone}

evaluate_part_bool(part, rawd, r) ==
    IF Lower(part) \in {sTrue, sFalse}
    THEN Lower(part) = sTrue
    ELSE Truthy(choose_variant(Get(rawd, part), r))

\* [part.strip() for part in token.split(op)]
Operands(token, op) ==
    LET parts == Split(token, op)
    IN  [i \in 1..Len(parts) |-> Strip(parts[i])]

sAnd == <<"&","&">>
sOr == <<"|","|">>

\* an evaluator that looks for || before &&
raw_as_bool_OrFirst(token, rawd, dsl, rnd) ==
    LET lowered == Strip(Lower(token))
    IN  IF Len(dsl) > 0 /\ (Len(token) = 0 \/ lowered \in {sDefault, sDef, sUnderscore})
        THEN Truthy(dsl)
        ELSE IF lowered \in {sTrue, sFalse}
        THEN lowered = sTrue
        ELSE IF Contains(token, sOr)
        THEN LET parts == Operands(token, sOr)
             IN  \E k \in 1..Len(parts) : evaluate_part_bool(parts[k], rawd, rnd[k])
        ELSE IF Contains(token, sAnd)
        THEN LET parts == Operands(token, sAnd)
             IN  \A k \in 1..Len(parts) : evaluate_part_bool(parts[k], rawd, rnd[k])
        ELSE Truthy(choose_variant(Get(rawd, token), rnd[1]))

\* rnd[k] is the draw of the k-th choose_variant call
raw_as_bool(token, rawd, dsl, rnd) ==
    LET lowered == Strip(Lower(token))
    IN  IF Len(dsl) > 0 /\ (Len(token) = 0 \/ lowered \in {sDefault, sDef, sUnderscore})
        THEN Truthy(dsl)
        ELSE IF lowered \in {sTrue, sFalse}
        THEN lowered = sTrue
        ELSE IF Contains(token, sAnd)
        THEN LET parts == Operands(token, sAnd)
             IN  \A k \in 1..Len(parts) : evaluate_part_bool(parts[k], rawd, rnd[k])
        ELSE IF Contains(token, sOr)
        THEN LET parts == Operands(token, sOr)
             IN  \E k \in 1..Len(parts) : evaluate_part_bool(parts[k], rawd, rnd[k])
        ELSE Truthy(choose_variant(Get(rawd, token), rnd[1]))

\* how many draws raw_as_bool may make on token
NumDraws(token) ==
    IF Contains(token, sAnd) THEN Len(Split(token, sAnd))
    ELSE IF Contains(token, sOr) THEN Len(Split(token, sOr))
    ELSE 1

\* the most alternatives random.choice picks among, over the values of rawd
MaxChoices(rawd) ==
    LET counts == {Len(VariantParts(rawd[k])) : k \in DOMAIN rawd} \cup {1}
    IN  CHOOSE n \in counts : \A m \in counts : m <= n

\* the draws of one raw_as_bool call
Draws(token, rawd) == [1..NumDraws(token) -> 0..(MaxChoices(rawd) - 1)]

\* strip_quotes: lit is FALSE where the code returns None
strip_quotes(token) ==
    LET t == Strip(token)
    IN  IF Len(t) >= 2 /\ t[1] = "\"" /\ t[Len(t)] = "\""
        THEN [lit |-> TRUE, text |-> SubSeq(t, 2, Len(t) - 1)]
        ELSE [lit |-> FALSE, text |-> EmptyStr]

(***************************************************************************)
(* Variable resolver (variable_builder.py, closures of get_variable)       *)
(***************************************************************************)
IsBrace(c) == c \in {"{", "}"}

\* a match of placeholder_pattern, \{\{([^{}]*)\}\}, starts at index i of text
MatchesAt(text, i) ==
    /\ OccursAt(text, <<"{", "{">>, i)
    /\ \E j \in (i + 2)..(Len(text) - 1) :
          /\ text[j] = "}"
          /\ text[j + 1] = "}"
          /\ \A k \in (i + 2)..(j - 1) : ~IsBrace(text[k])

\* placeholder_pattern.search(text): the leftmost match, group(1) as inner
placeholder_pattern(text) ==
    LET starts == {i \in 1..Len(text) : MatchesAt(text, i)}
    IN  IF starts = {} THEN [found |-> FALSE, start |-> 0, stop |-> 0, inner |-> EmptyStr]
        ELSE LET i == CHOOSE a \in starts : \A b \in starts : a <= b
                 j == CHOOSE c \in (i + 2)..(Len(text) - 1) :
                         /\ text[c] = "}"
                         /\ \A k \in (i + 2)..(c - 1) : ~IsBrace(text[k])
             IN  [found |-> TRUE, start |-> i, stop |-> j + 1,
                  inner |-> SubSeq(text, i + 2, j - 1)]

sDATE == <<"D","A","T","E">>
sTIME == <<"T","I","M","E">>
sIF == <<"I","F",":">>
sIFNOT == <<"I","F","N","O","T",":">>
sColon == <<":">>
sFallback == <<"?","?">>

RECURSIVE DropZeros(_)
DropZeros(digits) ==
    IF Len(digits) > 1 /\ Head(digits) = "0" THEN DropZeros(Tail(digits)) ELSE digits

\* str(int(digits))
StrInt(digits) == DropZeros(digits)

NoFb == [on |-> FALSE, text |-> EmptyStr, inner |-> EmptyStr]

Emit(kind, inner, text) ==
    [act |-> "emit", kind |-> kind, inner |-> inner, text |-> text, name |-> EmptyStr,
     fb |-> NoFb, cond |-> FALSE]

Call(kind, inner, name, fb, cond) ==
    [act |-> "call", kind |-> kind, inner |-> inner, text |-> EmptyStr, name |-> name,
     fb |-> fb, cond |-> cond]

\* `if len(parts) < 3`, the guard of the unpacking
Malformed(parts) == Len(parts) < 3

\* lines 141-147: a quoted branch is the replacement, another is resolved as a name
ReplBranch(inner, evaluated, chosen_token, literal) ==
    IF literal.lit
    THEN [Emit("if", inner, literal.text) EXCEPT !.cond = evaluated]
    ELSE Call("if", inner, chosen_token, NoFb, evaluated)

\* a branch choice that treats IFNOT as IF
ReplChoose_IgnoresNot(inner, is_not, evaluated, true_tok, false_tok) ==
    IF evaluated
    THEN ReplBranch(inner, evaluated, true_tok, strip_quotes(true_tok))
    ELSE ReplBranch(inner, evaluated, false_tok, strip_quotes(false_tok))

\* lines 136-142: negate for IFNOT, pick the branch
ReplChoose(inner, is_not, evaluated, true_tok, false_tok) ==
    IF (IF is_not THEN ~evaluated ELSE evaluated)
    THEN ReplBranch(inner, evaluated, true_tok, strip_quotes(true_tok))
    ELSE ReplBranch(inner, evaluated, false_tok, strip_quotes(false_tok))

\* lines 124-135: inner.split(":") and the unpacking of its parts
ReplParts(inner, parts, rawd, dsl, rnd) ==
    IF Malformed(parts) THEN Emit("malformed", inner, EmptyStr)
    ELSE ReplChoose(inner, StartsWith(Upper(inner), sIFNOT),
                    raw_as_bool(parts[2], rawd, dsl, rnd),
                    parts[3],
                    IF Len(parts) > 3 THEN parts[4] ELSE EmptyStr)

\* the IF / IFNOT branch of repl
ReplIf(inner, rawd, dsl, rnd) == ReplParts(inner, Split(inner, sColon), rawd, dsl, rnd)

\* the ?? branch of repl
ReplFallback(inner) ==
    LET vd == Split1(inner, sFallback)
        default_part == Strip(vd[2])
        literal_fallback == strip_quotes(default_part)
    IN  Call("fallback", inner, Strip(vd[1]),
             [on |-> TRUE, inner |-> inner,
              text |-> IF literal_fallback.lit THEN literal_fallback.text
                       ELSE default_part],
             FALSE)

\* repl, up to the call of resolve_variable it may end with; group is match.group(1)
repl(group, rawd, dsl, clock, rnd) ==
    LET inner == Strip(group)
        upper == Upper(inner)
    IN  IF Lower(inner) \in {EmptyStr, sDefault, sUnderscore}
        THEN Emit("default", inner, dsl)
        ELSE IF upper = sDATE THEN Emit("date", inner, StrInt(clock.date))
        ELSE IF upper = sTIME THEN Emit("time", inner, StrInt(clock.time))
        ELSE IF StartsWith(upper, sIF) \/ StartsWith(upper, sIFNOT)
        THEN ReplIf(inner, rawd, dsl, rnd)
        ELSE IF Contains(inner, sFallback) THEN ReplFallback(inner)
        ELSE IF strip_quotes(inner).lit THEN Emit("literal", inner, strip_quotes(inner).text)
        ELSE Call("plain", inner, inner, NoFb, FALSE)

\* the draws repl may need for group
ReplDraws(group, rawd) ==
    LET inner == Strip(group)
        parts == Split(inner, sColon)
    IN  IF (StartsWith(Upper(inner), sIF) \/ StartsWith(Upper(inner), sIFNOT))
           /\ Len(parts) >= 3
        THEN Draws(parts[2], rawd)
        ELSE {<<0>>}

\* one active replace_placeholders call: of the template (top) or of the value of name
Frame(top, name, text) ==
    [top |-> top, name |-> name, rest |-> text, out |-> EmptyStr, fb |-> NoFb]

Top == frames[Len(frames)]

\* the `stack` argument resolve_variable gets from the innermost replace_placeholders
CallStack == [i \in 1..(Len(frames) - 1) |-> frames[i + 1].name]

\* a cycle check that looks at the innermost name only
OnStack_InnermostOnly(name) == Len(frames) > 0 /\ ~Top.top /\ Top.name = name

\* `name in stack`
OnStack(name) == \E i \in 1..Len(frames) : ~frames[i].top /\ frames[i].name = name

\* resolve_variable calls that have not returned
Depth == Cardinality({i \in 1..Len(frames) : ~frames[i].top})
           + (IF pc = "call" THEN 1 ELSE 0)

NoEv == [kind |-> "none", inner |-> EmptyStr, cond |-> FALSE, called |-> FALSE,
         token |-> EmptyStr, value |-> EmptyStr, emitted |-> EmptyStr]

\* a fallback operator that never falls back
Returned_NeverFallsBack(frame, value) == value

\* what the caller's re.sub puts in place of the match once resolve_variable returned value
Returned(frame, value) ==
    IF frame.fb.on /\ Len(value) = 0 THEN frame.fb.text ELSE value

\* the value reaches the calling repl, which returns its replacement
Deliver(frame, value) ==
    [frame EXCEPT !.out = @ \o Returned(frame, value), !.fb = NoFb]

DeliverEv(frame, value) ==
    IF frame.fb.on
    THEN [NoEv EXCEPT !.kind = "fallback", !.inner = frame.fb.inner, !.value = value,
                      !.emitted = Returned(frame, value)]
    ELSE NoEv

\* lines 178-185 of TextVariableBuilder.get_variable
Render(a, final_value) ==
    IF a.out_val_by_switch /\ ~a.switch THEN EmptyStr
    ELSE IF Len(Strip(a.var_name)) > 0
    THEN Strip(a.var_name) \o <<" ", "=", " ">> \o final_value
    ELSE final_value

\* get_variable up to the first replace_placeholders call (lines 73-79, 174-176)
Begin ==
    /\ pc = "start"
    /\ LET input_lines == split_input_lines(args.INPUT_VAR)
           parsed == parse_input_lines(input_lines)
           cleaned_template == IF Len(args.var_value) > 0
                               THEN strip_all_comments(args.var_value) ELSE EmptyStr
       IN  /\ raw_dict' = parsed.raw
           /\ default_single_line' = parsed.default_value
           /\ resolved_cache' = EmptyDict
           /\ IF args.switch
              THEN /\ frames' = <<Frame(TRUE, EmptyStr, cleaned_template)>>
                   /\ pc' = "scan"
                   /\ VAR' = VAR
              ELSE /\ frames' = <<>>
                   /\ pc' = "done"
                   /\ VAR' = Render(args, EmptyStr)
    /\ steps' = steps + 1
    /\ UNCHANGED <<args, now, req, log, ev, err, fnVars, pb>>

\* re.sub puts before the match and what repl returned (r) into the result
ScanStep(f, m, r) ==
    /\ frames' = [frames EXCEPT ![Len(frames)] =
                    [f EXCEPT !.out = @ \o SubSeq(f.rest, 1, m.start - 1) \o r.text,
                              !.rest = From(f.rest, m.stop + 1),
                              !.fb = r.fb]]
    /\ pc' = IF r.act = "call" THEN "call" ELSE "scan"
    /\ req' = IF r.act = "call" THEN r.name ELSE req
    /\ err' = err
    /\ ev' = [NoEv EXCEPT !.kind = r.kind, !.inner = r.inner,
                          !.cond = r.cond, !.called = (r.act = "call"),
                          !.token = r.name, !.emitted = r.text]

ScanMatch(f, m) ==
    /\ m.found
    /\ \E rnd \in ReplDraws(m.inner, raw_dict) :
          ScanStep(f, m, repl(m.inner, raw_dict, default_single_line, now, rnd))

\* replace_placeholders reaches its next match and runs repl on it
Scan ==
    /\ pc = "scan"
    /\ ScanMatch(Top, placeholder_pattern(Top.rest))
    /\ steps' = steps + 1
    /\ UNCHANGED <<args, now, raw_dict, default_single_line, resolved_cache, VAR, log, fnVars, pb>>

\* resolve_variable without its cycle check
ReturnsAtOnce_NoCycleCheck(name) ==
    \/ name \in {sDefault, sDef, sUnderscore}
    \/ name \in DOMAIN resolved_cache
    \/ Len(Get(raw_dict, name)) = 0

\* a resolver in which a user variable shadows the reserved names
ReturnsAtOnce_NoReserved(name) ==
    \/ name \in DOMAIN resolved_cache
    \/ OnStack(name)
    \/ Len(Get(raw_dict, name)) = 0

\* resolve_variable returns without expanding anything (lines 83-97)
ReturnsAtOnce(name) ==
    \/ name \in {sDefault, sDef, sUnderscore}
    \/ name \in DOMAIN resolved_cache
    \/ OnStack(name)
    \/ Len(Get(raw_dict, name)) = 0

AtOnceValue(name) ==
    IF name \in {sDefault, sDef, sUnderscore} THEN default_single_line
    ELSE IF name \in DOMAIN resolved_cache THEN resolved_cache[name]
    ELSE EmptyStr

\* sys.getrecursionlimit(), as CPython sets it
RecursionLimit == 1000

\* the Python frames of a running resolve_variable: get_variable, and
\* replace_placeholders, repl and resolve_variable for every nesting level
\* (frames of get_variable's own callers not counted)
PyFrames == 3 * Len(frames) + 1

\* the calls resolve_variable makes to expand a value do not fit the stack
TooDeep == PyFrames + 1 > RecursionLimit

\* resolve_variable(req, stack), up to its return, its replace_placeholders call,
\* or the RecursionError of a call it makes, which nothing catches
ResolveVariable ==
    /\ pc = "call"
    /\ IF ReturnsAtOnce(req)
       THEN /\ frames' = [frames EXCEPT ![Len(frames)] = Deliver(Top, AtOnceValue(req))]
            /\ log' = log \cup {[name |-> req, value |-> AtOnceValue(req),
                                 cyclic |-> OnStack(req)]}
            /\ ev' = DeliverEv(Top, AtOnceValue(req))
            /\ pc' = "scan"
            /\ err' = err
       ELSE IF TooDeep
       THEN /\ frames' = frames
            /\ log' = log
            /\ ev' = NoEv
            /\ pc' = "raised"
            /\ err' = TRUE
       ELSE /\ \E r \in 0..(Len(VariantParts(raw_dict[req])) - 1) :
                 frames' = Append(frames, Frame(FALSE, req, choose_variant(raw_dict[req], r)))
            /\ log' = log
            /\ ev' = NoEv
            /\ pc' = "scan"
            /\ err' = err
    /\ steps' = steps + 1
    /\ UNCHANGED <<args, now, raw_dict, default_single_line, resolved_cache, req, VAR,
                   fnVars, pb>>

\* a resolver that forgets what it expanded
CacheStore_Skip(cache, name, expanded) == cache

\* resolved_cache[name] = expanded
CacheStore(cache, name, expanded) == Put(cache, name, expanded)

\* replace_placeholders has no match left inside resolve_variable: lines 100-102
Return ==
    /\ pc = "scan"
    /\ ~Top.top
    /\ ~placeholder_pattern(Top.rest).found
    /\ LET expanded == Top.out \o Top.rest
           caller == frames[Len(frames) - 1]
       IN  /\ resolved_cache' = CacheStore(resolved_cache, Top.name, expanded)
           /\ frames' = [SubSeq(frames, 1, Len(frames) - 1)
                           EXCEPT ![Len(frames) - 1] = Deliver(caller, expanded)]
           /\ log' = log \cup {[name |-> Top.name, value |-> expanded, cyclic |-> FALSE]}
           /\ ev' = DeliverEv(caller, expanded)
    /\ steps' = steps + 1
    /\ UNCHANGED <<args, now, raw_dict, default_single_line, pc, req, VAR, err, fnVars, pb>>

\* the outermost replace_placeholders returns final_value; lines 176-185
Finish ==
    /\ pc = "scan"
    /\ Top.top
    /\ ~placeholder_pattern(Top.rest).found
    /\ VAR' = Render(args, Top.out \o Top.rest)
    /\ frames' = <<>>
    /\ pc' = "done"
    /\ ev' = NoEv
    /\ steps' = steps + 1
    /\ UNCHANGED <<args, now, raw_dict, default_single_line, resolved_cache, req, log,
                   err, fnVars, pb>>

Next == Begin \/ Scan \/ ResolveVariable \/ Return \/ Finish

(***************************************************************************)
(* Inputs                                                                  *)
(***************************************************************************)
MaxItems == 2     \* items (placeholders or literal characters) of a drawn template
MaxLines == 2     \* lines of a drawn INPUT_VAR list

\* {{inner}}
Ph(inner) == <<"{", "{">> \o inner \o <<"}", "}">>

\* "text"
Quoted(text) == <<"\"">> \o text \o <<"\"">>

\* the line `name=value`
Assign(name, value) == name \o <<"=">> \o value

RECURSIVE Flatten(_)
Flatten(items) ==
    IF Len(items) = 0 THEN EmptyStr ELSE Head(items) \o Flatten(Tail(items))

\* every sequence of at most n elements of S
SeqsUpTo(S, n) == UNION {[1..k -> S] : k \in 0..n}

nA == <<"a">>
nB == <<"b">>
nC == <<"c">>
nU == <<"u">>     \* never defined
nX == <<"x">>
nFoo == <<"f","o","o">>
nFlag == <<"f","l","a","g">>

VarNames == {nA, nB}

Absent == <<"(absent)">>

\* {{IF:cond:t:f}} and {{IFNOT:cond:t:f}}
If(cond, t, f) == Ph(sIF \o cond \o sColon \o t \o sColon \o f)
IfNot(cond, t, f) == Ph(sIFNOT \o cond \o sColon \o t \o sColon \o f)

\* {{v??f}}
Fallback(v, f) == Ph(v \o sFallback \o f)

RawValues ==
    { <<"1", "|", "0">>,
      Ph(nA),
      Ph(nB),
      Ph(nB) \o <<"z">>,
      If(nA, nB, nA),
      Fallback(nB, nA),
      <<"0">> }

DefaultLine == <<"d">>

\* the INPUT_VAR list that defines the names as m says, and a default line
LinesOf(m) ==
    (IF m[nA] = Absent THEN <<>> ELSE <<Assign(nA, m[nA])>>)
      \o (IF m[nB] = Absent THEN <<>> ELSE <<Assign(nB, m[nB])>>)
      \o <<DefaultLine>>

\* three names that refer to each other in a ring, directly, by IF and by ??
RingLists ==
    { <<Assign(nA, Ph(nB)), Assign(nB, Ph(nC)), Assign(nC, Ph(nA) \o <<"z">>)>>,
      <<Assign(nA, If(sTrue, nB, nB)), Assign(nB, Fallback(nC, nA)),
        Assign(nC, IfNot(nA, nA, nA))>>,
      <<Assign(nA, Ph(nB) \o Ph(nC)), Assign(nB, Ph(nC) \o <<"1">>),
        Assign(nC, <<"y", "|">> \o Ph(nA))>> }

ContextLists ==
    {LinesOf(m) : m \in [VarNames -> RawValues \cup {Absent}]} \cup RingLists

CoreItems ==
    { Ph(nA),
      Ph(nB),
      If(nA, nB, Quoted(<<"n">>)),
      Fallback(nU, nB),
      <<"-">> }

CoreTemplates == {Flatten(items) : items \in SeqsUpTo(CoreItems, MaxItems)}

Args(switch, obs, var_name, var_value, input_var) ==
    [switch |-> switch, out_val_by_switch |-> obs, var_name |-> var_name,
     var_value |-> var_value, INPUT_VAR |-> input_var]

\* templates over the contexts: what the resolver does with cycles, variants, the cache
ResolveArgs ==
    {Args(TRUE, FALSE, EmptyStr, t, List(c)) : t \in CoreTemplates, c \in ContextLists}

\* placeholders that contribute nothing: an undefined name, IF / IFNOT with too few parts
BadItems ==
    { Ph(nU),
      Ph(sIF \o nA),
      Ph(<<"i","f",":">>),
      Ph(sIFNOT \o nB) }

\* the other kinds of placeholder
MidItems ==
    { If(nA, Quoted(<<"y">>), Quoted(<<"n">>)),
      IfNot(nA, Quoted(<<"y">>), Quoted(<<"n">>)),
      If(nA \o sAnd \o nB, nA, nB),
      Ph(sIFNOT \o nA \o sOr \o nB \o sColon \o <<" ">> \o Quoted(<<"y">>)),
      Fallback(nA, Quoted(<<"f">>)),
      Fallback(nB, <<" ">> \o nA),
      Ph(EmptyStr),
      Ph(Quoted(<<"l">>)) }

Around == {EmptyStr, <<"-">>, Ph(nB)}

SandwichTemplates ==
    {pre \o mid \o post : pre \in Around, mid \in BadItems \cup MidItems, post \in Around}

SandwichArgs ==
    {Args(TRUE, FALSE, EmptyStr, t, List(c)) :
        t \in SandwichTemplates, c \in ContextLists}

\* INPUT_VAR lists for the line parser
ParseLines ==
    { <<"f","o","o","=","b","a","r">>,
      <<"b","a","z">>,
      EmptyStr,
      <<"f","o","o"," ","="," ","b","=","r">>,
      <<" ","q","u","x"," ">>,
      <<"=","v">>,
      <<" ">> }

ParseTemplates == {Ph(sDefault), Ph(nFoo) \o <<"\n">> \o Ph(EmptyStr)}

ParseArgs ==
    {Args(sw, obs, vn, t, List(ls)) :
        sw \in BOOLEAN, obs \in BOOLEAN, vn \in {EmptyStr, <<" ", "v">>},
        t \in ParseTemplates, ls \in SeqsUpTo(ParseLines, MaxLines)}

\* INPUT_VAR given as one string
StrInputs ==
    { Assign(nA, Ph(nB)) \o <<" ", "\n", "\t">> \o Assign(nB, <<"1", "|", "0">>)
        \o <<"\r", "\n">> \o <<"d", " ">>,
      <<" ">> \o Assign(nA, <<"1">>) \o <<" ">>,
      <<" ", "d", "\n", "\n">> \o Assign(nB, Ph(nA)),
      <<"\n">>,
      EmptyStr }

StrTemplates == {Ph(nA) \o Ph(sDefault), Ph(nB) \o Ph(nU), If(nB, nA, EmptyStr)}

StrArgs ==
    {Args(TRUE, FALSE, EmptyStr, t, Str(text)) : t \in StrTemplates, text \in StrInputs}

sYes == <<"y","e","s">>
sNo == <<"n","o">>
sFallbackText == <<"f","a","l","l","b","a","c","k">>

\* the examples of section 8 of the specification
CycleExample ==
    Args(TRUE, FALSE, EmptyStr, Ph(nA),
         List(<<Assign(nA, Ph(nB)), Assign(nB, Ph(nA))>>))
VariantExample ==
    Args(TRUE, FALSE, EmptyStr, Ph(nX) \o <<"-">> \o Ph(nX),
         List(<<Assign(nX, <<"a","|","b","|","c">>)>>))
IfExample ==
    Args(TRUE, FALSE, EmptyStr, If(nFlag, Quoted(sYes), Quoted(sNo)),
         List(<<Assign(nFlag, sTrue)>>))
IfNotExample ==
    Args(TRUE, FALSE, EmptyStr, IfNot(nFlag, Quoted(sYes), Quoted(sNo)),
         List(<<Assign(nFlag, sTrue)>>))
FallbackExample ==
    Args(TRUE, FALSE, EmptyStr, Fallback(nX, Quoted(sFallbackText)), List(<<>>))
DefaultExample ==
    Args(TRUE, FALSE, EmptyStr, Ph(sDefault),
         List(<<Assign(nFoo, <<"b","a","r">>), <<"b","a","z">>>>))

ExampleArgs ==
    {CycleExample, VariantExample, IfExample, IfNotExample, FallbackExample,
     DefaultExample}

ArgSet == ResolveArgs \cup SandwichArgs \cup ParseArgs \cup StrArgs \cup ExampleArgs

NoArgs == Args(FALSE, FALSE, EmptyStr, EmptyStr, List(<<>>))

Clock == [date |-> <<"2","0","2","4","0","3","0","5">>, time |-> <<"0","0","0","5","0","9">>]

\* no pure-function specification is running
\* no build_prompt call
PromptIdle == pb = <<>>

FnIdle ==
    /\ fn_in = EmptyStr
    /\ fn_out = EmptyStr
    /\ fn_pc = "idle"

\* no get_variable call is running
CallIdle ==
    /\ args = NoArgs
    /\ now = Clock
    /\ raw_dict = EmptyDict
    /\ default_single_line = EmptyStr
    /\ resolved_cache = EmptyDict
    /\ frames = <<>>
    /\ pc = "idle"
    /\ req = EmptyStr
    /\ VAR = EmptyStr
    /\ log = {}
    /\ ev = NoEv
    /\ err = FALSE
    /\ steps = 0

Init ==
    /\ PromptIdle
    /\ args \in ArgSet
    /\ now = Clock
    /\ raw_dict = EmptyDict
    /\ default_single_line = EmptyStr
    /\ resolved_cache = EmptyDict
    /\ frames = <<>>
    /\ pc = "start"
    /\ req = EmptyStr
    /\ VAR = EmptyStr
    /\ log = {}
    /\ ev = NoEv
    /\ err = FALSE
    /\ steps = 0
    /\ FnIdle

Spec == Init /\ [][Next]_vars

(***************************************************************************)
(* get_variable on a long chain of names                                   *)
(***************************************************************************)
ChainLen == 333     \* names of the chain, each one's value the placeholder of the next

Digits == <<"0", "1", "2", "3", "4", "5", "6", "7", "8", "9">>

\* str(n)
RECURSIVE Dec(_)
Dec(n) == IF n < 10 THEN <<Digits[n + 1]>> ELSE Dec(n \div 10) \o <<Digits[(n % 10) + 1]>>

ChainName(i) == <<"v">> \o Dec(i)

\* v1={{v2}}, v2={{v3}}, ... , the last name having the value e
ChainLines(n) ==
    [i \in 1..n |-> IF i < n THEN Assign(ChainName(i), Ph(ChainName(i + 1)))
                            ELSE Assign(ChainName(i), <<"e">>)]

ChainArgs(n) == Args(TRUE, FALSE, EmptyStr, Ph(ChainName(1)), List(ChainLines(n)))

InitDeep ==
    /\ PromptIdle
    /\ args \in {ChainArgs(n) : n \in {1, ChainLen - 1, ChainLen}}
    /\ now = Clock
    /\ raw_dict = EmptyDict
    /\ default_single_line = EmptyStr
    /\ resolved_cache = EmptyDict
    /\ frames = <<>>
    /\ pc = "start"
    /\ req = EmptyStr
    /\ VAR = EmptyStr
    /\ log = {}
    /\ ev = NoEv
    /\ err = FALSE
    /\ steps = 0
    /\ FnIdle

SpecDeep == InitDeep /\ [][Next]_vars

(***************************************************************************)
(* raw_as_bool on its own                                                  *)
(***************************************************************************)
nY == <<"y">>

BoolOperands == {nX, nY, sTrue, <<"F","a","l","s","e">>}

BoolValues == {sTrue, <<"0">>, <<"N","o","n","e">>, <<"1", "|", "0">>, <<"y","e","s">>, Absent}

\* the dict that defines x and y as m says
DictOf(m) == [k \in {n \in DOMAIN m : m[n] # Absent} |-> m[k]]

BoolDicts == {DictOf(m) : m \in [{nX, nY} -> BoolValues]}

\* a && b, a || b, with and without blanks, and the two mixtures of three operands
BoolTokens ==
    {a \o sAnd \o b : a \in BoolOperands, b \in BoolOperands}
      \cup {a \o sOr \o b : a \in BoolOperands, b \in BoolOperands}
      \cup {<<" ">> \o a \o <<" ">> \o op \o <<" ">> \o nY \o <<" ">> :
               a \in BoolOperands, op \in {sAnd, sOr}}
      \cup {a \o sAnd \o b \o sOr \o c :
               a \in {nX, sTrue}, b \in {nY, sTrue}, c \in {nX, sTrue}}
      \cup {a \o sOr \o b \o sAnd \o c :
               a \in {nX, sTrue}, b \in {nY, sTrue}, c \in {nX, sTrue}}
      \cup {nX \o sAnd \o nY \o sAnd \o sTrue, nX \o sOr \o nY \o sOr \o sFalse}

BoolInputs ==
    {[token |-> t, raw_dict |-> d, default_single_line |-> dsl] :
        t \in BoolTokens, d \in BoolDicts, dsl \in {EmptyStr, DefaultLine}}

NoResult == [value |-> FALSE, rnd |-> <<>>]

InitBool ==
    /\ PromptIdle
    /\ CallIdle
    /\ fn_in \in BoolInputs
    /\ fn_out = NoResult
    /\ fn_pc = "ready"

\* one call raw_as_bool(token, raw_dict, default_single_line)
RawAsBool ==
    /\ fn_pc = "ready"
    /\ \E rnd \in Draws(fn_in.token, fn_in.raw_dict) :
          fn_out' = [value |-> raw_as_bool(fn_in.token, fn_in.raw_dict,
                                           fn_in.default_single_line, rnd),
                     rnd |-> rnd]
    /\ fn_pc' = "done"
    /\ UNCHANGED <<fn_in, callVars, pb>>

NextBool == RawAsBool

SpecBool == InitBool /\ [][NextBool]_vars


(***************************************************************************)
(* raw_as_bool on the default token                                        *)
(***************************************************************************)
\* the empty token and the reserved names, as written, upper-cased and padded
DefaultTokens == {EmptyStr, sDefault, sDef, sUnderscore, <<"D", "E", "F", "A", "U", "L", "T">>, <<" ", "d", "e", "f", " ">>}

\* dicts that define none, some or all of the reserved names
DefaultDicts == {DictOf(m) : m \in [{sDefault, sDef, sUnderscore} -> {<<"1">>, <<"0">>, Absent}]}

DefaultValues == {EmptyStr, DefaultLine, <<"0">>, <<"N", "o", "n", "e">>}

DefaultInputs ==
    {[token |-> t, raw_dict |-> d, default_single_line |-> dsl] :
        t \in DefaultTokens, d \in DefaultDicts, dsl \in DefaultValues}

InitBoolDefault ==
    /\ PromptIdle
    /\ CallIdle
    /\ fn_in \in DefaultInputs
    /\ fn_out = NoResult
    /\ fn_pc = "ready"

SpecBoolDefault == InitBoolDefault /\ [][NextBool]_vars


(***************************************************************************)
(* get_variable on the reserved names                                      *)
(***************************************************************************)
ReservedNames == {sDefault, sDef, sUnderscore}

\* the INPUT_VAR list that defines the reserved names as m says, a variable a
\* that refers to def, and the default line d or none
ReservedLines(m, d) ==
    (IF m[sDefault] = Absent THEN <<>> ELSE <<Assign(sDefault, m[sDefault])>>)
      \o (IF m[sDef] = Absent THEN <<>> ELSE <<Assign(sDef, m[sDef])>>)
      \o (IF m[sUnderscore] = Absent THEN <<>> ELSE <<Assign(sUnderscore, m[sUnderscore])>>)
      \o <<Assign(nA, Ph(sDef) \o <<"x">>)>>
      \o d

ReservedLists ==
    {ReservedLines(m, d) : m \in [ReservedNames -> {<<"u">>, Absent}],
                           d \in {<<>>, <<DefaultLine>>}}

\* {{default}}, {{def}}, {{_}}, {{}}, as written and padded
ReservedPlaceholders ==
    {Ph(sDefault), Ph(sDef), Ph(sUnderscore), Ph(EmptyStr), Ph(<<" ", "d", "e", "f", " ">>), Ph(<<" ">>)}

ReservedTemplates ==
    ReservedPlaceholders
      \cup {Ph(nA), Fallback(sDef, Quoted(<<"f">>)), If(sTrue, sUnderscore, Quoted(<<"n">>)),
            Ph(sDef) \o Ph(nA) \o Ph(sDefault)}

ReservedArgs ==
    {Args(TRUE, FALSE, EmptyStr, t, List(c)) : t \in ReservedTemplates, c \in ReservedLists}

InitReserved ==
    /\ PromptIdle
    /\ FnIdle
    /\ args \in ReservedArgs
    /\ now = Clock
    /\ raw_dict = EmptyDict
    /\ default_single_line = EmptyStr
    /\ resolved_cache = EmptyDict
    /\ frames = <<>>
    /\ pc = "start"
    /\ req = EmptyStr
    /\ VAR = EmptyStr
    /\ log = {}
    /\ ev = NoEv
    /\ err = FALSE
    /\ steps = 0

SpecReserved == InitReserved /\ [][Next]_vars


(***************************************************************************)
(* split_input_lines and parse_input_lines on a multi-line string          *)
(***************************************************************************)
MaxSplitLines == 13

LineNames == <<"a", "b", "c", "d", "e", "f", "g", "h", "i", "j", "k", "l", "m", "n", "o", "p", "q">>

\* line k of the drawn text: `name=value` or `name = value`
SplitLine(k, eq) == <<LineNames[k]>> \o eq \o <<LineNames[k], LineNames[k]>>

RECURSIVE SplitText(_, _, _)
\* n lines joined by the line break br
SplitText(n, eq, br) ==
    IF n = 1 THEN SplitLine(1, eq)
    ELSE SplitText(n - 1, eq, br) \o br \o SplitLine(n, eq)

SplitBreaks == {<<"\n">>, <<"\r", "\n">>, <<" ", "\n", "\t">>, <<"\r">>}

SplitInputs ==
    {[n |-> n, text |-> SplitText(n, eq, br)] :
        n \in 2..MaxSplitLines, eq \in {<<"=">>, <<" ", "=", " ">>}, br \in SplitBreaks}

NoSplit == [lines |-> <<>>, raw |-> EmptyDict]

InitSplit ==
    /\ PromptIdle
    /\ CallIdle
    /\ fn_in \in SplitInputs
    /\ fn_out = NoSplit
    /\ fn_pc = "ready"

\* input_lines = split_input_lines(INPUT_VAR), INPUT_VAR a string
SplitInput ==
    /\ fn_pc = "ready"
    /\ fn_out' = [fn_out EXCEPT !.lines = split_input_lines(Str(fn_in.text))]
    /\ fn_pc' = "split"
    /\ UNCHANGED <<fn_in, callVars, pb>>

\* raw_dict, default_single_line = parse_input_lines(input_lines)
ParseInput ==
    /\ fn_pc = "split"
    /\ fn_out' = [fn_out EXCEPT !.raw = parse_input_lines(fn_out.lines).raw]
    /\ fn_pc' = "parsed"
    /\ UNCHANGED <<fn_in, callVars, pb>>

NextSplit == SplitInput \/ ParseInput

SpecSplit == InitSplit /\ [][NextSplit]_vars


(***************************************************************************)
(* get_variable at different clock times                                   *)
(***************************************************************************)
\* what strftime("%Y%m%d") and strftime("%H%M%S") give
ClockDates == {<<"2", "0", "2", "4", "0", "3", "0", "5">>, <<"1", "9", "9", "9", "1", "2", "3", "1">>}
ClockTimes == {<<"0", "0", "0", "5", "0", "9">>, <<"0", "0", "0", "0", "0", "0">>, <<"0", "0", "0", "0", "0", "1">>, <<"0", "1", "0", "2", "0", "3">>, <<"0", "9", "0", "0", "0", "0">>, <<"0", "9", "5", "9", "5", "9">>,
               <<"1", "0", "0", "0", "0", "0">>, <<"2", "3", "5", "9", "5", "9">>}

ClockTemplates ==
    {Ph(sDATE), Ph(sTIME), Ph(<<"d", "a", "t", "e">>) \o <<"_">> \o Ph(<<" ", "T", "i", "m", "e", " ">>),
     If(sTrue, Quoted(<<"t">>), EmptyStr) \o Ph(sTIME), Ph(nA) \o Ph(sTIME)}

ClockArgs ==
    {Args(TRUE, FALSE, EmptyStr, t, List(<<Assign(nA, Ph(sDATE))>>)) : t \in ClockTemplates}

InitClock ==
    /\ PromptIdle
    /\ FnIdle
    /\ args \in ClockArgs
    /\ now \in [date : ClockDates, time : ClockTimes]
    /\ raw_dict = EmptyDict
    /\ default_single_line = EmptyStr
    /\ resolved_cache = EmptyDict
    /\ frames = <<>>
    /\ pc = "start"
    /\ req = EmptyStr
    /\ VAR = EmptyStr
    /\ log = {}
    /\ ev = NoEv
    /\ err = FALSE
    /\ steps = 0

SpecClock == InitClock /\ [][Next]_vars

(***************************************************************************)
(* strip_all_comments on its own                                           *)
(***************************************************************************)
MaxPieces == 4     \* pieces of a drawn text

Pieces ==
    { <<"/">>, <<"*">>, <<"/", "*">>, <<"*", "/">>, <<"/", "*", "*", "/">>,
      <<"/", "/">>, <<"#">>, <<"a">>, <<"\n">> }

Texts == {Flatten(items) : items \in SeqsUpTo(Pieces, MaxPieces)}

NoStrip == [once |-> EmptyStr, twice |-> EmptyStr]

InitStrip ==
    /\ PromptIdle
    /\ CallIdle
    /\ fn_in \in Texts
    /\ fn_out = NoStrip
    /\ fn_pc = "ready"

\* strip_all_comments(text)
StripOnce ==
    /\ fn_pc = "ready"
    /\ fn_out' = [fn_out EXCEPT !.once = strip_all_comments(fn_in)]
    /\ fn_pc' = "once"
    /\ UNCHANGED <<fn_in, callVars, pb>>

\* strip_all_comments of what the first call returned
StripAgain ==
    /\ fn_pc = "once"
    /\ fn_out' = [fn_out EXCEPT !.twice = strip_all_comments(fn_out.once)]
    /\ fn_pc' = "twice"
    /\ UNCHANGED <<fn_in, callVars, pb>>

NextStrip == StripOnce \/ StripAgain

SpecStrip == InitStrip /\ [][NextStrip]_vars


(***************************************************************************)
(* strip_all_comments on texts with a backslash before #                   *)
(***************************************************************************)
EscapePieces == {<<"\\">>, <<"#">>, <<"\\", "#">>, <<"a">>, <<"b">>, <<"\n">>}

EscapeTexts == {Flatten(items) : items \in SeqsUpTo(EscapePieces, MaxPieces)}

InitEscape ==
    /\ PromptIdle
    /\ CallIdle
    /\ fn_in \in EscapeTexts
    /\ fn_out = NoStrip
    /\ fn_pc = "ready"

SpecEscape == InitEscape /\ [][NextStrip]_vars

(***************************************************************************)
(* Formatting directives (directives.py)                                   *)
(***************************************************************************)
\* re.sub(r'\s+', ' ', text): every run of whitespace becomes one space
CollapseSpace(text) ==
    Flatten([i \in 1..Len(text) |->
               IF ~IsSpace(text[i]) THEN <<text[i]>>
               ELSE IF i = 1 \/ ~IsSpace(text[i - 1]) THEN <<" ">>
               ELSE <<>>])

directive_spaceless(text) == Strip(CollapseSpace(text))

directive_lower(text) == Lower(text)

directive_upper(text) == Upper(text)

IsLetter(c) == LowerChar(c) # c \/ UpperChar(c) # c

\* str.title(): a letter after a non-letter is upper case, any other letter lower case
directive_title(text) ==
    [i \in 1..Len(text) |->
       IF i = 1 \/ ~IsLetter(text[i - 1]) THEN UpperChar(text[i]) ELSE LowerChar(text[i])]

\* a match of ([.!?]\s+)(\w) ends at index i of s
SentenceStart(s, i) ==
    \E j \in 1..(i - 2) :
        /\ s[j] \in {".", "!", "?"}
        /\ \A k \in (j + 1)..(i - 1) : IsSpace(s[k])

\* s[0].upper() + s[1:], then re.sub(r'([.!?]\s+)(\w)', cap, s), of the stripped text
Capitalized(s) ==
    [i \in 1..Len(s) |-> IF i = 1 \/ SentenceStart(s, i) THEN UpperChar(s[i]) ELSE s[i]]

sentence_case(s) == Capitalized(Strip(s))

directive_sentence(text) == sentence_case(text)

directive_trim(text) == Strip(text)

\* '^[ \t]+$' (re.MULTILINE) matches the line
WhitespaceOnly(line) == Len(line) > 0 /\ \A k \in 1..Len(line) : IsBlank(line[k])

\* _whitespace_only_re.sub('', text), line by line
Blanked(lines) ==
    [i \in 1..Len(lines) |-> IF WhitespaceOnly(lines[i]) THEN EmptyStr ELSE lines[i]]

\* '(^[ \t]*)(?:[^ \t\n])': the leading blanks of a line that has another character
Indent(line) == SubSeq(line, 1, BlankRunEnd(line, 1))

\* the longest common prefix of two indents
CommonIndent(a, b) ==
    SubSeq(a, 1, CHOOSE n \in 0..Len(a) :
                    /\ n <= Len(b)
                    /\ \A k \in 1..n : a[k] = b[k]
                    /\ (n = Len(a) \/ n = Len(b) \/ a[n + 1] # b[n + 1]))

\* textwrap.dedent's margin over lines[lo..]: "none" where no line has an indent
RECURSIVE Margin(_, _)
Margin(lines, lo) ==
    IF lo > Len(lines) THEN [none |-> TRUE, text |-> EmptyStr]
    ELSE IF Len(lines[lo]) = 0 THEN Margin(lines, lo + 1)
    ELSE IF Margin(lines, lo + 1).none THEN [none |-> FALSE, text |-> Indent(lines[lo])]
    ELSE [none |-> FALSE, text |-> CommonIndent(Indent(lines[lo]), Margin(lines, lo + 1).text)]

\* re.sub(r'(?m)^' + margin, '', text), line by line
Dedented(lines, margin) ==
    [i \in 1..Len(lines) |->
       IF StartsWith(lines[i], margin) THEN From(lines[i], Len(margin) + 1) ELSE lines[i]]

\* textwrap.dedent(text)
directive_dedent(text) ==
    Join(Dedented(Blanked(Split(text, <<"\n">>)),
                  Margin(Blanked(Split(text, <<"\n">>)), 1).text), <<"\n">>)

\* re.sub(r'\n{2,}', '\n', text)
directive_collapse_newlines(text) ==
    Flatten([i \in 1..Len(text) |->
               IF text[i] = "\n" /\ i > 1 /\ text[i - 1] = "\n" THEN <<>> ELSE <<text[i]>>])

\* string.punctuation, but for the backquote, which no text drawn here holds
Punctuation ==
    {"!", "\"", "#", "$", "%", "&", "'", "(", ")", "*", "+", ",", "-", ".", "/", ":",
     ";", "<", "=", ">", "?", "@", "[", "\\", "]", "^", "_", "{", "|", "}", "~"}

directive_strip_punct(text) ==
    Flatten([i \in 1..Len(text) |-> IF text[i] \in Punctuation THEN <<>> ELSE <<text[i]>>])

\* the character references of html.unescape that the texts use
CharRefs ==
    { [ref |-> <<"&", "a", "m", "p", ";">>, char |-> "&"], [ref |-> <<"&", "l", "t", ";">>, char |-> "<"],
      [ref |-> <<"&", "g", "t", ";">>, char |-> ">"], [ref |-> <<"&", "q", "u", "o", "t", ";">>, char |-> "\""],
      [ref |-> <<"&", "#", "1", "2", "3", ";">>, char |-> "{"], [ref |-> <<"&", "#", "3", "7", ";">>, char |-> "%"],
      [ref |-> <<"&", "#", "1", "2", "5", ";">>, char |-> "}"] }

\* html.unescape(text), for a text in which every & that starts a character
\* reference starts one of CharRefs
RECURSIVE directive_unescape_html(_)
directive_unescape_html(text) ==
    IF Find(text, <<"&">>) = 0 THEN text
    ELSE IF \E r \in CharRefs : OccursAt(text, r.ref, Find(text, <<"&">>))
    THEN SubSeq(text, 1, Find(text, <<"&">>) - 1)
           \o <<(CHOOSE r \in CharRefs : OccursAt(text, r.ref, Find(text, <<"&">>))).char>>
           \o directive_unescape_html(
                From(text, Find(text, <<"&">>)
                             + Len((CHOOSE r \in CharRefs :
                                      OccursAt(text, r.ref, Find(text, <<"&">>))).ref)))
    ELSE SubSeq(text, 1, Find(text, <<"&">>))
           \o directive_unescape_html(From(text, Find(text, <<"&">>) + 1))

\* str.lstrip()
LStrip(s) ==
    IF \A i \in 1..Len(s) : IsSpace(s[i]) THEN EmptyStr
    ELSE From(s, CHOOSE i \in 1..Len(s) : ~IsSpace(s[i]) /\ \A j \in 1..(i - 1) : IsSpace(s[j]))

\* [ln for ln in lines if ln]
NonEmpty(lines) == SelectSeq(lines, LAMBDA ln : Len(ln) > 0)

directive_list(text) ==
    Join(NonEmpty([i \in 1..Len(SplitLines(text)) |-> LStrip(SplitLines(text)[i])]), <<"\n">>)

directive_list_right(text) ==
    Join(NonEmpty([i \in 1..Len(SplitLines(text)) |-> Strip(SplitLines(text)[i])]), <<"\n">>)

\* a join with commas alone
ListAnd_CommaOnly(non_empty) == Strip(Join(non_empty, <<",", " ">>))

\* the rest of directive_list_and, once the lines are trimmed and the empty ones dropped
ListAnd(non_empty) ==
    IF Len(non_empty) = 0 THEN EmptyStr
    ELSE IF Len(Join(SubSeq(non_empty, 1, Len(non_empty) - 1), <<",", " ">>)) = 0
    THEN Strip(non_empty[Len(non_empty)])
    ELSE Strip(Join(SubSeq(non_empty, 1, Len(non_empty) - 1), <<",", " ">>)
                 \o <<" ", "a", "n", "d", " ">> \o non_empty[Len(non_empty)])

directive_list_and(text) ==
    ListAnd(NonEmpty([i \in 1..Len(SplitLines(text)) |-> Strip(SplitLines(text)[i])]))

\* _DIRECTIVE_FUNCS: tag -> the function registered for it
DIRECTIVE_FUNCS ==
    (<<"s", "p", "a", "c", "e", "l", "e", "s", "s">> :> "directive_spaceless") @@ (<<"s", "l">> :> "directive_spaceless")
      @@ (<<"l", "o", "w", "e", "r">> :> "directive_lower") @@ (<<"l", "w">> :> "directive_lower")
      @@ (<<"u", "p", "p", "e", "r">> :> "directive_upper") @@ (<<"u", "p">> :> "directive_upper")
      @@ (<<"t", "i", "t", "l", "e">> :> "directive_title") @@ (<<"t", "l">> :> "directive_title")
      @@ (<<"s", "e", "n", "t", "e", "n", "c", "e">> :> "directive_sentence") @@ (<<"s", "n", "t">> :> "directive_sentence")
      @@ (<<"t", "r", "i", "m">> :> "directive_trim") @@ (<<"t", "r">> :> "directive_trim")
      @@ (<<"d", "e", "d", "e", "n", "t">> :> "directive_dedent") @@ (<<"d", "d">> :> "directive_dedent")
      @@ (<<"c", "o", "l", "l", "a", "p", "s", "e", "_", "n", "e", "w", "l", "i", "n", "e", "s">> :> "directive_collapse_newlines")
      @@ (<<"c", "n", "l">> :> "directive_collapse_newlines")
      @@ (<<"s", "t", "r", "i", "p", "_", "p", "u", "n", "c", "t">> :> "directive_strip_punct") @@ (<<"s", "p">> :> "directive_strip_punct")
      @@ (<<"u", "n", "e", "s", "c", "a", "p", "e", "_", "h", "t", "m", "l">> :> "directive_unescape_html")
      @@ (<<"u", "n", "e", "h">> :> "directive_unescape_html")
      @@ (<<"l", "i", "s", "t">> :> "directive_list") @@ (<<"c", "l">> :> "directive_list")
      @@ (<<"l", "i", "s", "t", "_", "r", "t", "r", "i", "m">> :> "directive_list_right") @@ (<<"c", "l", "r">> :> "directive_list_right")
      @@ (<<"l", "i", "s", "t", "_", "a", "n", "d">> :> "directive_list_and") @@ (<<"l", "a">> :> "directive_list_and")

\* fun(processed_inner)
ApplyDirective(fun, text) ==
    CASE fun = "directive_spaceless" -> directive_spaceless(text)
      [] fun = "directive_lower" -> directive_lower(text)
      [] fun = "directive_upper" -> directive_upper(text)
      [] fun = "directive_title" -> directive_title(text)
      [] fun = "directive_sentence" -> directive_sentence(text)
      [] fun = "directive_trim" -> directive_trim(text)
      [] fun = "directive_dedent" -> directive_dedent(text)
      [] fun = "directive_collapse_newlines" -> directive_collapse_newlines(text)
      [] fun = "directive_strip_punct" -> directive_strip_punct(text)
      [] fun = "directive_unescape_html" -> directive_unescape_html(text)
      [] fun = "directive_list" -> directive_list(text)
      [] fun = "directive_list_right" -> directive_list_right(text)
      [] fun = "directive_list_and" -> directive_list_and(text)

\* {%tag%} and {%tag stop%}
DirOpen(tag) == <<"{", "%">> \o tag \o <<"%", "}">>
DirStop(tag) == <<"{", "%">> \o tag \o <<" ", "s", "t", "o", "p", "%", "}">>

\* a match of \{%(tags)%\}([\s\S]*?)\{%\1 stop%\} starts at index i with this tag
DirMatchAt(text, i, tag) ==
    /\ OccursAt(text, DirOpen(tag), i)
    /\ \E j \in (i + Len(DirOpen(tag)))..Len(text) : OccursAt(text, DirStop(tag), j)

\* a search that finds a match at the start of the text only
DirStarts_AtStart(text) ==
    {i \in {1} \cap (1..Len(text)) :
        text[i] = "{" /\ \E tag \in DOMAIN DIRECTIVE_FUNCS : DirMatchAt(text, i, tag)}

\* the indices at which a match starts
DirStarts(text) ==
    {i \in 1..Len(text) :
        text[i] = "{" /\ \E tag \in DOMAIN DIRECTIVE_FUNCS : DirMatchAt(text, i, tag)}

NoMatch == [found |-> FALSE, start |-> 0, end |-> 0, tag |-> EmptyStr, inner |-> EmptyStr]

\* the match that starts at i with this tag: it ends with the nearest {%tag stop%}
DirMatch(text, i, tag) ==
    LET j == CHOOSE a \in (i + Len(DirOpen(tag)))..Len(text) :
                /\ OccursAt(text, DirStop(tag), a)
                /\ \A b \in (i + Len(DirOpen(tag)))..(a - 1) : ~OccursAt(text, DirStop(tag), b)
    IN  [found |-> TRUE, start |-> i, end |-> j + Len(DirStop(tag)) - 1, tag |-> tag,
         inner |-> SubSeq(text, i + Len(DirOpen(tag)), j - 1)]

\* pattern.search(text): the leftmost match
DirSearch(text) ==
    IF DirStarts(text) = {} THEN NoMatch
    ELSE LET i == CHOOSE a \in DirStarts(text) : \A b \in DirStarts(text) : a <= b
         IN  DirMatch(text, i, CHOOSE tag \in DOMAIN DIRECTIVE_FUNCS : DirMatchAt(text, i, tag))

RECURSIVE process_directives(_)

\* one pass of the loop: text[:match.start()] + fun(processed_inner) + text[match.end():]
DirSplice(text, m) ==
    SubSeq(text, 1, m.start - 1)
      \o ApplyDirective(DIRECTIVE_FUNCS[m.tag], process_directives(m.inner))
      \o From(text, m.end + 1)

\* `while True`, from the search on
RECURSIVE DirLoop(_, _)
DirLoop(text, m) ==
    IF ~m.found THEN text
    ELSE DirLoop(DirSplice(text, m), DirSearch(DirSplice(text, m)))

\* SimplePromptBuilder._process_directives
process_directives(text) ==
    IF Len(text) = 0 THEN text ELSE DirLoop(text, DirSearch(text))

(***************************************************************************)
(* Prompt compiler (prompt_builder.py, SimplePromptBuilder)                *)
(***************************************************************************)
\* the Python values of a context: what json.loads gives and what the host passes
PyBool(b) == [type |-> "bool", bool |-> b, text |-> EmptyStr]
PyStr(text) == [type |-> "str", bool |-> FALSE, text |-> text]
PyInt(digits) == [type |-> "int", bool |-> FALSE, text |-> digits]
PyNone == [type |-> "NoneType", bool |-> FALSE, text |-> EmptyStr]
PyList == [type |-> "list", bool |-> FALSE, text |-> EmptyStr]     \* []

\* str(value)
PyToStr(value) ==
    CASE value.type = "bool" -> IF value.bool THEN <<"T", "r", "u", "e">> ELSE <<"F", "a", "l", "s", "e">>
      [] value.type = "NoneType" -> <<"N", "o", "n", "e">>
      [] value.type = "list" -> <<"[", "]">>
      [] OTHER -> value.text

\* a coercion for which every non-empty string form is true
to_bool_NonEmpty(value) ==
    IF value.type = "bool" THEN value.bool ELSE Len(PyToStr(value)) > 0

\* SimplePromptBuilder._to_bool
to_bool(value) ==
    IF value.type = "bool" THEN value.bool
    ELSE Lower(PyToStr(value)) \in {<<"t", "r", "u", "e">>, <<"1">>, <<"y", "e", "s">>, <<"+">>}

\* cache.get(key, default)
DictGet(cache, key, default) == IF key \in DOMAIN cache THEN cache[key] ELSE default

\* json.loads, for the texts drawn here: a scalar, [], an object whose members
\* are scalars or [] (no separator, quote or backslash inside a string), and
\* text that is not JSON
JsonNumber(t) ==
    /\ Len(t) > 0
    /\ \A k \in 1..Len(t) : t[k] \in {"0", "1", "2", "3", "4", "5", "6", "7", "8", "9"}
    /\ (Len(t) = 1 \/ t[1] # "0")

JsonString(t) ==
    /\ Len(t) >= 2
    /\ t[1] = "\"" /\ t[Len(t)] = "\""
    /\ \A k \in 2..(Len(t) - 1) : t[k] \notin {"\"", "\\", "\n", "\r", "\t"}

JsonList(t) ==
    /\ Len(t) >= 2
    /\ t[1] = "[" /\ t[Len(t)] = "]"
    /\ Len(Strip(SubSeq(t, 2, Len(t) - 1))) = 0

JsonScalar(t) ==
    t \in {<<"t", "r", "u", "e">>, <<"f", "a", "l", "s", "e">>, <<"n", "u", "l", "l">>} \/ JsonNumber(t) \/ JsonString(t) \/ JsonList(t)

\* the value of a scalar, or of []
JsonValue(t) ==
    CASE t = <<"t", "r", "u", "e">> -> PyBool(TRUE)
      [] t = <<"f", "a", "l", "s", "e">> -> PyBool(FALSE)
      [] t = <<"n", "u", "l", "l">> -> PyNone
      [] JsonNumber(t) -> PyInt(t)
      [] JsonString(t) -> PyStr(SubSeq(t, 2, Len(t) - 1))
      [] OTHER -> PyList

JsonKey(member) == Strip(Split1(member, <<":">>)[1])

JsonMember(member) ==
    /\ Contains(member, <<":">>)
    /\ JsonString(JsonKey(member))
    /\ JsonScalar(Strip(Split1(member, <<":">>)[2]))

\* the members between the braces
JsonMembers(t) ==
    IF Len(Strip(SubSeq(t, 2, Len(t) - 1))) = 0 THEN <<>>
    ELSE Split(SubSeq(t, 2, Len(t) - 1), <<",">>)

JsonObject(t) ==
    /\ Len(t) >= 2
    /\ t[1] = "{" /\ t[Len(t)] = "}"
    /\ \A k \in 1..Len(JsonMembers(t)) : JsonMember(JsonMembers(t)[k])

\* the dict of an object: of two members with one key the later one stays
JsonDict(members) ==
    [key \in {SubSeq(JsonKey(members[k]), 2, Len(JsonKey(members[k])) - 1) :
                k \in 1..Len(members)} |->
        JsonValue(Strip(Split1(
            members[CHOOSE k \in 1..Len(members) :
                      /\ SubSeq(JsonKey(members[k]), 2, Len(JsonKey(members[k])) - 1) = key
                      /\ \A j \in (k + 1)..Len(members) :
                            SubSeq(JsonKey(members[j]), 2, Len(JsonKey(members[j])) - 1) # key],
            <<":">>)[2]))]

\* json.loads(text): a dict, another value, or an exception
json_loads(text) ==
    IF JsonObject(Strip(text))
    THEN [kind |-> "dict", dict |-> JsonDict(JsonMembers(Strip(text))), value |-> PyNone]
    ELSE IF JsonScalar(Strip(text))
    THEN [kind |-> "value", dict |-> EmptyDict, value |-> JsonValue(Strip(text))]
    ELSE [kind |-> "raises", dict |-> EmptyDict, value |-> PyNone]

\* try: json.loads(cachedValues) / except Exception: {}
Loaded(cachedValues) ==
    IF json_loads(cachedValues).kind = "raises"
    THEN [kind |-> "dict", dict |-> EmptyDict, value |-> PyNone]
    ELSE json_loads(cachedValues)

\* {**_cachedValues, **kwargs}, for a dict _cachedValues
Merged(cached, kwargs) == kwargs @@ cached

COMPILED_PROMPT == <<"c", "o", "m", "p", "i", "l", "e", "d", "_", "p", "r", "o", "m", "p", "t">>
EXTRA_COMPILED == <<"e", "x", "t", "r", "a", "_", "c", "o", "m", "p", "i", "l", "e", "d">>

\* a context that keeps the incoming values of the reserved words
Popped_KeepsReserved(cache) == cache

\* _cachedValues.pop(_reserved_word, "") for both reserved words
Popped(cache) == [key \in DOMAIN cache \ {COMPILED_PROMPT, EXTRA_COMPILED} |-> cache[key]]

\* the character at index i ("" outside the text)
At(text, i) == IF i \in 1..Len(text) THEN text[i] ELSE ""

\* the character classes of the patterns: [^\]:/\[], [^]\[], [^:{}], [^{}]
InClass(class, c) ==
    CASE class = "TagNameChar" -> c \notin {"]", ":", "/", "["}
      [] class = "TagGroupChar" -> c \notin {"]", "["}
      [] class = "FieldChar" -> c \notin {":", "{", "}"}
      [] class = "DefaultChar" -> c \notin {"{", "}"}

\* the last index of the run of characters of a class that starts at i (i - 1: no run)
RunEnd(text, i, class) ==
    IF i > Len(text) THEN i - 1
    ELSE CHOOSE e \in (i - 1)..Len(text) :
            /\ \A k \in i..e : InClass(class, text[k])
            /\ (e < Len(text) => ~InClass(class, text[e + 1]))

NoSpan == [found |-> FALSE, start |-> 0, end |-> 0, name |-> EmptyStr, inner |-> EmptyStr]

Span(text, start, end, name, inner) ==
    [found |-> TRUE, start |-> start, end |-> end, name |-> name, inner |-> inner]

\* [%name%] and [%/name%]
BlockOpen(name) == <<"[", "%">> \o name \o <<"%", "]">>
BlockClose(name) == <<"[", "%", "/">> \o name \o <<"%", "]">>

\* \[\%\/?name\%\] at index j
BlockEndAt(text, name, j) ==
    OccursAt(text, BlockOpen(name), j) \/ OccursAt(text, BlockClose(name), j)

\* a match of \[\%name\%\]([\s\S]*?)\[\%\/?name\%\] starts at index i
BlockAt(text, name, i) ==
    /\ OccursAt(text, BlockOpen(name), i)
    /\ \E j \in (i + Len(BlockOpen(name)))..Len(text) : BlockEndAt(text, name, j)

\* the match that starts at i: it ends with the nearest closing marker
BlockSpan(text, name, i) ==
    LET j == CHOOSE a \in (i + Len(BlockOpen(name)))..Len(text) :
                /\ BlockEndAt(text, name, a)
                /\ \A b \in (i + Len(BlockOpen(name)))..(a - 1) : ~BlockEndAt(text, name, b)
    IN  Span(text, i,
             IF OccursAt(text, BlockOpen(name), j) THEN j + Len(BlockOpen(name)) - 1
             ELSE j + Len(BlockClose(name)) - 1,
             name, SubSeq(text, i + Len(BlockOpen(name)), j - 1))

\* vars_block_pattern.search(text), extra_block_pattern.search(text)
BlockSearch(text, name) ==
    IF \A i \in 1..Len(text) : ~BlockAt(text, name, i) THEN NoSpan
    ELSE BlockSpan(text, name,
                   CHOOSE i \in 1..Len(text) :
                      BlockAt(text, name, i) /\ \A b \in 1..(i - 1) : ~BlockAt(text, name, b))

\* text[:match.start()] + text[match.end():]
Excised(text, m) ==
    IF m.found THEN SubSeq(text, 1, m.start - 1) \o From(text, m.end + 1) ELSE text

\* an opening tag that admits no :GROUP part
TagOpenEnd_NoGroup(text, i, ne) ==
    IF ~OccursAt(text, <<"[", "[">>, i) \/ ne < i + 2 THEN 0
    ELSE IF OccursAt(text, <<"]", "]">>, ne + 1) THEN ne + 2
    ELSE 0

\* \[\[([^\]:/\[]+)(?::([^]\[]+))?\]\] at index i: the index of its last character
\* (0: no such tag there), the name ending at index ne
TagOpenEnd(text, i, ne) ==
    IF ~OccursAt(text, <<"[", "[">>, i) \/ ne < i + 2 THEN 0
    ELSE IF OccursAt(text, <<"]", "]">>, ne + 1) THEN ne + 2
    ELSE IF At(text, ne + 1) = ":"
              /\ RunEnd(text, ne + 2, "TagGroupChar") >= ne + 2
              /\ OccursAt(text, <<"]", "]">>, RunEnd(text, ne + 2, "TagGroupChar") + 1)
    THEN RunEnd(text, ne + 2, "TagGroupChar") + 2
    ELSE 0

\* \[\[\/?\1\]\] at index j
TagCloseAt(text, name, j) ==
    OccursAt(text, <<"[", "[">> \o name \o <<"]", "]">>, j) \/ OccursAt(text, <<"[", "[", "/">> \o name \o <<"]", "]">>, j)

\* the match of tag_pattern that starts at i, the opening tag ending at oe with
\* this name: it ends with the nearest closing tag
TagSpan(text, i, oe, name) ==
    IF oe = 0 \/ \A j \in (oe + 1)..Len(text) : ~TagCloseAt(text, name, j) THEN NoSpan
    ELSE LET j == CHOOSE a \in (oe + 1)..Len(text) :
                     /\ TagCloseAt(text, name, a)
                     /\ \A b \in (oe + 1)..(a - 1) : ~TagCloseAt(text, name, b)
         IN  Span(text, i,
                  IF OccursAt(text, <<"[", "[">> \o name \o <<"]", "]">>, j) THEN j + Len(name) + 3
                  ELSE j + Len(name) + 4,
                  name, SubSeq(text, oe + 1, j - 1))

TagAt(text, i) ==
    TagSpan(text, i, TagOpenEnd(text, i, RunEnd(text, i + 2, "TagNameChar")),
            SubSeq(text, i + 2, RunEnd(text, i + 2, "TagNameChar")))

\* the fields of {{NAME:TYPE:VALUE:DEFAULT}} at index i: the index each ends at
NameEnd(text, i) == RunEnd(text, i + 2, "FieldChar")
TypeEnd(text, i) == RunEnd(text, NameEnd(text, i) + 2, "FieldChar")
ValueEnd(text, i) == RunEnd(text, TypeEnd(text, i) + 2, "FieldChar")
DefaultEnd(text, i) == RunEnd(text, ValueEnd(text, i) + 2, "DefaultChar")

\* the match of \{\{([^:{}]+):([^:{}]*):([^:{}]*):([^{}]*)\}\} that starts at i
PlaceholderAt(text, i) ==
    IF /\ OccursAt(text, <<"{", "{">>, i)
       /\ NameEnd(text, i) >= i + 2
       /\ At(text, NameEnd(text, i) + 1) = ":"
       /\ At(text, TypeEnd(text, i) + 1) = ":"
       /\ At(text, ValueEnd(text, i) + 1) = ":"
       /\ OccursAt(text, <<"}", "}">>, DefaultEnd(text, i) + 1)
    THEN Span(text, i, DefaultEnd(text, i) + 2, SubSeq(text, i + 2, NameEnd(text, i)),
              EmptyStr)
    ELSE NoSpan

\* the match of \{\{([^:{}]+)(:[^:{}]+)?\}\} that starts at i
PlaceholderDupAt(text, i) ==
    IF ~OccursAt(text, <<"{", "{">>, i) \/ NameEnd(text, i) < i + 2 THEN NoSpan
    ELSE IF OccursAt(text, <<"}", "}">>, NameEnd(text, i) + 1)
    THEN Span(text, i, NameEnd(text, i) + 2, SubSeq(text, i + 2, NameEnd(text, i)), EmptyStr)
    ELSE IF /\ At(text, NameEnd(text, i) + 1) = ":"
            /\ TypeEnd(text, i) >= NameEnd(text, i) + 2
            /\ OccursAt(text, <<"}", "}">>, TypeEnd(text, i) + 1)
    THEN Span(text, i, TypeEnd(text, i) + 2, SubSeq(text, i + 2, NameEnd(text, i)), EmptyStr)
    ELSE NoSpan

\* the match of a pattern that starts at index i
MatchAt(pattern, text, i) ==
    CASE pattern = "tag_pattern" -> TagAt(text, i)
      [] pattern = "placeholder_pattern" -> PlaceholderAt(text, i)
      [] pattern = "placeholder_dup_pattern" -> PlaceholderDupAt(text, i)

\* apply_tag_toggles.repl: inner if enabled else ""
TagRepl(m, cache) ==
    IF to_bool(DictGet(cache, Strip(m.name), PyBool(TRUE))) THEN m.inner ELSE EmptyStr

\* replace_placeholder: str(_cachedValues.get(name, ""))
replace_placeholder(m, cache) == PyToStr(DictGet(cache, m.name, PyStr(EmptyStr)))

Replacement(pattern, m, cache) ==
    IF pattern = "tag_pattern" THEN TagRepl(m, cache) ELSE replace_placeholder(m, cache)

RECURSIVE ReSub(_, _, _)

\* pattern.sub from the leftmost match m on
ReSubFrom(pattern, text, cache, m) ==
    SubSeq(text, 1, m.start - 1)
      \o Replacement(pattern, m, cache)
      \o ReSub(pattern, From(text, m.end + 1), cache)

\* pattern.sub(repl, text): the matches left to right, none overlapping another
ReSub(pattern, text, cache) ==
    IF \A i \in 1..Len(text) : ~MatchAt(pattern, text, i).found THEN text
    ELSE ReSubFrom(pattern, text, cache,
                   MatchAt(pattern, text,
                           CHOOSE i \in 1..Len(text) :
                              /\ MatchAt(pattern, text, i).found
                              /\ \A b \in 1..(i - 1) : ~MatchAt(pattern, text, b).found))

apply_tag_toggles(text, cache) == ReSub("tag_pattern", text, cache)

\* placeholder_dup_pattern.sub(replace_placeholder,
\*     placeholder_pattern.sub(replace_placeholder, text))
Substituted(text, cache) ==
    ReSub("placeholder_dup_pattern", ReSub("placeholder_pattern", text, cache), cache)

sVars == <<"v", "a", "r", "s">>
sExtra == <<"e", "x", "t", "r", "a">>
sPromptTextActive == <<"p", "r", "o", "m", "p", "t", "T", "e", "x", "t", "A", "c", "t", "i", "v", "e">>
sExtraActive == <<"e", "x", "t", "r", "a", "A", "c", "t", "i", "v", "e">>

\* prompt_without_vars
WithoutVars(prompt) ==
    Excised(strip_all_comments(prompt), BlockSearch(strip_all_comments(prompt), sVars))

\* a call build_prompt(prompt, cachedValues, **kwargs) on entry
PromptCall(prompt, cachedValues, kwargs) ==
    [prompt |-> prompt, cachedValues |-> cachedValues, kwargs |-> kwargs,
     pc |-> "start", cache |-> EmptyDict, prompt_main |-> EmptyStr, extra_raw |-> EmptyStr,
     compiled_raw |-> EmptyStr, compiled_prompt |-> EmptyStr, extra_compiled |-> EmptyStr]

\* json.loads, the merge with kwargs (a TypeError unless json.loads gave a dict,
\* outside the try), the reserved words
Load(call) ==
    IF Loaded(call.cachedValues).kind = "dict"
    THEN [call EXCEPT !.pc = "loaded",
                      !.cache = Popped(Merged(Loaded(call.cachedValues).dict, call.kwargs))]
    ELSE [call EXCEPT !.pc = "raised"]

\* comments, the vars block, the extra block
Extract(call) ==
    [call EXCEPT !.pc = "extracted",
                 !.extra_raw = BlockSearch(WithoutVars(call.prompt), sExtra).inner,
                 !.prompt_main = Excised(WithoutVars(call.prompt),
                                         BlockSearch(WithoutVars(call.prompt), sExtra))]

\* a main stage that stores the gated text under compiled_prompt
Main_StoresGated(call) ==
    [call EXCEPT
       !.pc = "main",
       !.compiled_raw = Substituted(apply_tag_toggles(call.prompt_main, call.cache), call.cache),
       !.cache = Put(call.cache, COMPILED_PROMPT,
                     PyStr(IF to_bool(DictGet(call.cache, sPromptTextActive, PyBool(FALSE)))
                           THEN Substituted(apply_tag_toggles(call.prompt_main, call.cache),
                                            call.cache)
                           ELSE EmptyStr)),
       !.compiled_prompt =
           IF to_bool(DictGet(call.cache, sPromptTextActive, PyBool(FALSE)))
           THEN Substituted(apply_tag_toggles(call.prompt_main, call.cache), call.cache)
           ELSE EmptyStr]

\* compiled_raw as it is computed and stored, and compiled_prompt behind its gate
Main(call) ==
    [call EXCEPT
       !.pc = "main",
       !.compiled_raw = Substituted(apply_tag_toggles(call.prompt_main, call.cache), call.cache),
       !.cache = Put(call.cache, COMPILED_PROMPT,
                     PyStr(Substituted(apply_tag_toggles(call.prompt_main, call.cache),
                                       call.cache))),
       !.compiled_prompt =
           IF to_bool(DictGet(call.cache, sPromptTextActive, PyBool(FALSE)))
           THEN Substituted(apply_tag_toggles(call.prompt_main, call.cache), call.cache)
           ELSE EmptyStr]

\* extra_compiled behind both gates
Extra_BehindBothGates(call) ==
    [call EXCEPT
       !.pc = "extra",
       !.extra_compiled =
           IF /\ Len(call.extra_raw) > 0
              /\ to_bool(DictGet(call.cache, sExtraActive, PyBool(FALSE)))
              /\ to_bool(DictGet(call.cache, sPromptTextActive, PyBool(FALSE)))
           THEN Substituted(apply_tag_toggles(call.extra_raw, call.cache), call.cache)
           ELSE EmptyStr]

\* extra_compiled behind its gate
Extra(call) ==
    [call EXCEPT
       !.pc = "extra",
       !.extra_compiled =
           IF Len(call.extra_raw) > 0 /\ to_bool(DictGet(call.cache, sExtraActive, PyBool(FALSE)))
           THEN Substituted(apply_tag_toggles(call.extra_raw, call.cache), call.cache)
           ELSE EmptyStr]

\* _process_directives on both outputs, and the return
Directives(call) ==
    [call EXCEPT !.pc = "done",
                 !.compiled_prompt = process_directives(call.compiled_prompt),
                 !.extra_compiled = process_directives(call.extra_compiled)]

\* locals in which the context mapping is the one of the first call
Locals_SharedCache(c) == [pb[c] EXCEPT !.cache = pb[1].cache]

\* the arguments and locals of call c: every call has its own
Locals(c) == pb[c]

LoadContext ==
    /\ \E c \in DOMAIN pb :
          /\ pb[c].pc = "start"
          /\ pb' = [pb EXCEPT ![c] = Load(Locals(c))]
    /\ UNCHANGED <<callVars, fnVars>>

ExtractBlocks ==
    /\ \E c \in DOMAIN pb :
          /\ pb[c].pc = "loaded"
          /\ pb' = [pb EXCEPT ![c] = Extract(Locals(c))]
    /\ UNCHANGED <<callVars, fnVars>>

CompileMain ==
    /\ \E c \in DOMAIN pb :
          /\ pb[c].pc = "extracted"
          /\ pb' = [pb EXCEPT ![c] = Main(Locals(c))]
    /\ UNCHANGED <<callVars, fnVars>>

CompileExtra ==
    /\ \E c \in DOMAIN pb :
          /\ pb[c].pc = "main"
          /\ pb' = [pb EXCEPT ![c] = Extra(Locals(c))]
    /\ UNCHANGED <<callVars, fnVars>>

ApplyDirectives ==
    /\ \E c \in DOMAIN pb :
          /\ pb[c].pc = "extra"
          /\ pb' = [pb EXCEPT ![c] = Directives(Locals(c))]
    /\ UNCHANGED <<callVars, fnVars>>

\* the steps of the build_prompt calls, in any order
NextPrompt ==
    \/ LoadContext
    \/ ExtractBlocks
    \/ CompileMain
    \/ CompileExtra
    \/ ApplyDirectives

\* build_prompt run from its entry to its return, or to the exception
build_prompt(prompt, cachedValues, kwargs) ==
    IF Load(PromptCall(prompt, cachedValues, kwargs)).pc = "raised"
    THEN Load(PromptCall(prompt, cachedValues, kwargs))
    ELSE Directives(Extra(Main(Extract(Load(PromptCall(prompt, cachedValues, kwargs))))))

(***************************************************************************)
(* build_prompt: inputs                                                    *)
(***************************************************************************)
\* a JSON object as the host writes it: members is a sequence of <<key, JSON literal>>
JsonText(members) ==
    <<"{">> \o Join([k \in 1..Len(members) |-> Quoted(members[k][1]) \o <<":", " ">> \o members[k][2]],
                 <<",", " ">>)
        \o <<"}">>

sShow == <<"s", "h", "o", "w">>
sGrp == <<"g", "r", "p">>

\* [[name]] or [[name:group]], and [[/name]]
TagText(name, group) ==
    <<"[", "[">> \o name \o (IF Len(group) = 0 THEN EmptyStr ELSE <<":">> \o group) \o <<"]", "]">>
TagEnd(name) == <<"[", "[", "/">> \o name \o <<"]", "]">>

ToggleTemplate(before, name, group, inner, after) ==
    before \o TagText(name, group) \o inner \o TagEnd(name) \o after

Befores == {EmptyStr, <<"A">>}
Inners == {<<"B">>, Ph(nA)}
Afters == {<<"C">>}
Groups == {EmptyStr, sGrp}

ToggleTemplates ==
    {ToggleTemplate(before, sShow, group, inner, after) :
        before \in Befores, group \in Groups, inner \in Inners, after \in Afters}

\* the JSON literals given to a toggle
ToggleLiterals ==
    {<<"f", "a", "l", "s", "e">>, <<"t", "r", "u", "e">>, <<"\"", "Y", "e", "s", "\"">>, <<"\"", "+", "\"">>, <<"\"", "1", "\"">>, <<"1">>, <<"\"", "0", "\"">>, <<"\"", "n", "o", "\"">>, <<"n", "u", "l", "l">>, <<"\"", "\"">>,
     <<"\"", "T", "R", "U", "E", "\"">>}

PromptOn == <<sPromptTextActive, <<"t", "r", "u", "e">>>>
ExtraOn == <<sExtraActive, <<"t", "r", "u", "e">>>>
ValueOfA == <<nA, <<"\"", "v", "\"">>>>

\* cachedValues with the main output on, with and without a value for show
ToggleContexts ==
    {JsonText(<<PromptOn, ValueOfA>>)}
      \cup {JsonText(<<PromptOn, <<sShow, lit>>, ValueOfA>>) : lit \in ToggleLiterals}

\* keyword inputs that leave show alone or override it
ToggleKwargs == {EmptyDict, sShow :> PyBool(FALSE), sShow :> PyStr(<<"y", "e", "s">>)}

ToggleInputs ==
    {PromptCall(t, cv, kw) : t \in ToggleTemplates, cv \in ToggleContexts, kw \in ToggleKwargs}

\* [%extra%]inner[%/extra%]
ExtraBlock(inner) == BlockOpen(sExtra) \o inner \o BlockClose(sExtra)

\* main templates: the last two name a gate's key as a toggle tag, as a placeholder
GateMains ==
    {<<"M">> \o Ph(nA),
     ToggleTemplate(EmptyStr, sExtraActive, EmptyStr, <<"m">>, EmptyStr),
     Ph(sExtraActive)}

\* no extra block, an empty one, and blocks with text, with the other
\* spelling of the closing marker, with the main output as a placeholder, and
\* with the other gate's key as a toggle tag and as a placeholder
GateExtras ==
    {EmptyStr,
     ExtraBlock(EmptyStr),
     ExtraBlock(<<"E">> \o Ph(nA)),
     BlockOpen(sExtra) \o <<"E">> \o BlockOpen(sExtra),
     ExtraBlock(Ph(COMPILED_PROMPT)),
     ExtraBlock(ToggleTemplate(EmptyStr, sPromptTextActive, EmptyStr, <<"x">>, EmptyStr)),
     ExtraBlock(Ph(sPromptTextActive))}

GateTemplates == {main \o extra : main \in GateMains, extra \in GateExtras}

\* what cachedValues says of a gate: nothing, or one of these JSON literals
GateLiterals == {<<"t", "r", "u", "e">>, <<"f", "a", "l", "s", "e">>, <<"\"", "y", "e", "s", "\"">>, <<"\"", "0", "\"">>}

GateMembers(key) == {<<>>} \cup {<<<<key, lit>>>> : lit \in GateLiterals}

GateContexts ==
    {JsonText(p \o e \o <<ValueOfA>>) :
        p \in GateMembers(sPromptTextActive), e \in GateMembers(sExtraActive)}

GateKwargs == {EmptyDict, sExtraActive :> PyBool(FALSE)}

GateInputs ==
    {PromptCall(t, cv, kw) : t \in GateTemplates, cv \in GateContexts, kw \in GateKwargs}

\* {{NAME:TYPE:VALUE:DEFAULT}}
Typed(name, type, value, default) ==
    Ph(name \o <<":">> \o type \o <<":">> \o value \o <<":">> \o default)

\* the fields the host writes: TYPE, VALUE, and DEFAULT, also with USE_INPUT after it
\* and as a colour
FieldTypes == {EmptyStr, <<"S", "T", "R", "I", "N", "G">>}
FieldValues == {EmptyStr, <<"x">>}
FieldDefaults == {EmptyStr, <<"d">>, <<"d", ":", "t", "r", "u", "e">>, <<"#", "d">>}

TypedTemplates ==
    {<<"P">> \o Typed(nA, type, value, default) \o <<"Q">> :
        type \in FieldTypes, value \in FieldValues, default \in FieldDefaults}

\* {{NAME}} and {{NAME:anything}}
ShortTemplates == {<<"P">> \o Ph(nA) \o <<"Q">>, <<"P">> \o Ph(nA \o <<":">> \o <<"x">>) \o <<"Q">>}

\* the JSON literals given to a placeholder's name
FieldLiterals == {<<"\"", "v", "\"">>, <<"5">>, <<"t", "r", "u", "e">>, <<"\"", "\"">>, <<"\"", "{", "{", "b", "}", "}", "\"">>}

ValueOfB == <<nB, <<"\"", "w", "\"">>>>

\* cachedValues with and without a value for a
FieldContexts ==
    {JsonText(<<PromptOn, ValueOfB>>)}
      \cup {JsonText(<<PromptOn, <<nA, lit>>, ValueOfB>>) : lit \in FieldLiterals}

FieldInputs ==
    {PromptCall(t, cv, EmptyDict) : t \in TypedTemplates \cup ShortTemplates,
                                    cv \in FieldContexts}

\* cachedValues that do not decode to a JSON object: text that is not JSON, the
\* empty text, and JSON that is a list, null, a number, a string, a boolean
MalformedContexts == {<<"n", "o", "t", " ", "j", "s", "o", "n">>, EmptyStr, <<"{">>, <<"[", "]">>, <<"n", "u", "l", "l">>, <<"5">>, <<"\"", "s", "\"">>, <<"t", "r", "u", "e">>}

\* the empty object, which they are said to be taken for
sEmptyObject == <<"{", "}">>

ContextTemplates == {<<"M">> \o Ph(nA), ToggleTemplate(<<"A">>, sShow, EmptyStr, Ph(nA), <<"C">>)}

\* the keyword inputs: both gates on, with and without values for a and show
ContextKwargs ==
    {(sPromptTextActive :> PyBool(TRUE)) @@ (sExtraActive :> PyBool(TRUE)),
     (sPromptTextActive :> PyBool(TRUE)) @@ (nA :> PyStr(<<"k">>)) @@ (sShow :> PyBool(FALSE)),
     (sPromptTextActive :> PyBool(TRUE)) @@ (nA :> PyStr(<<"k">>))}

ContextInputs ==
    {PromptCall(t, cv, kw) : t \in ContextTemplates,
                             cv \in MalformedContexts \cup {sEmptyObject},
                             kw \in ContextKwargs}

PromptInputs == ToggleInputs \cup GateInputs \cup FieldInputs \cup ContextInputs

\* one build_prompt call
InitPrompt ==
    /\ CallIdle
    /\ FnIdle
    /\ pb \in {<<call>> : call \in PromptInputs}

SpecPrompt == InitPrompt /\ [][NextPrompt]_vars


(***************************************************************************)
(* build_prompt: nested tags, groups, the vars block, the reserved keys    *)
(***************************************************************************)
sTagA == <<"A">>
sTagB == <<"B">>

\* before [[A]]x[[B]]y[[/B]]z[[/A]] after
NestedTags(before, x, y, z, after) ==
    before \o TagText(sTagA, EmptyStr) \o x \o TagText(sTagB, EmptyStr) \o y
           \o TagEnd(sTagB) \o z \o TagEnd(sTagA) \o after

NestedTemplates ==
    {NestedTags(before, x, <<"y">>, z, <<"q">>) :
        before \in {EmptyStr, <<"p">>}, x \in {EmptyStr, <<"x">>}, z \in {EmptyStr, <<"z">>}}

\* the members that give a tag a JSON literal, or leave it out
TagMembers(tag) ==
    {<<>>} \cup {<< <<tag, lit>> >> : lit \in {<<"t", "r", "u", "e">>, <<"f", "a", "l", "s", "e">>, <<"\"", "0", "\"">>}}

\* cachedValues with the main output on and every choice for the tags A and B
TagContexts ==
    {JsonText(<<PromptOn>> \o a \o b) : a \in TagMembers(sTagA), b \in TagMembers(sTagB)}

NestedInputs ==
    {PromptCall(t, cv, EmptyDict) : t \in NestedTemplates, cv \in TagContexts}

\* group names as tag_pattern admits them; none for the empty one
GroupNames == {EmptyStr, sGrp, <<"h", ":", "/", "2">>, sTagB}

\* p[[A:g1]]x[[/A]]-[[B:g2]]y[[/B]]q
GroupedTags(g1, g2) ==
    <<"p">> \o TagText(sTagA, g1) \o <<"x">> \o TagEnd(sTagA) \o <<"-">>
         \o TagText(sTagB, g2) \o <<"y">> \o TagEnd(sTagB) \o <<"q">>

GroupedInputs ==
    {PromptCall(GroupedTags(g1, g2), cv, EmptyDict) :
        g1 \in GroupNames, g2 \in GroupNames, cv \in TagContexts}

\* p[%vars%]inner[%/vars%]q{{a}}[%extra%]e[%/extra%]
VarsTemplate(inner) ==
    <<"p">> \o BlockOpen(sVars) \o inner \o BlockClose(sVars) \o <<"q">> \o Ph(nA)
         \o ExtraBlock(<<"e">>)

\* texts for the vars block: definitions, comments, and the markers of the other stages
VarsContents ==
    {EmptyStr, <<"k", "=", "1">>, <<"#", " ", "n">>, <<"k", "=", "1", "\n", "#", " ", "n", "\n">>, <<"k", "=", "1", " ", "#", " ", "n">>, <<"[", "[", "A", "]", "]">>, <<"[", "[", "A", "]", "]", "x", "[", "[", "/", "A", "]", "]">>,
     Ph(nA), <<"{", "%", "u", "p", "p", "e", "r", "%", "}">>, BlockOpen(sExtra), ExtraBlock(<<"E">>), <<"/", "*", " ", "c", " ", "*", "/">>, <<"a", "\n", "b">>}

VarsContexts ==
    {JsonText(<<PromptOn, ExtraOn, ValueOfA>>),
     JsonText(<<PromptOn, ExtraOn, ValueOfA, <<sTagA, <<"f", "a", "l", "s", "e">>>> >>),
     JsonText(<<ExtraOn>>)}

VarsInputs ==
    {PromptCall(VarsTemplate(inner), cv, EmptyDict) : inner \in VarsContents, cv \in VarsContexts}

\* templates that read the reserved keys, as placeholders and as toggle tags,
\* in the main text and in the extra block
ReservedKeyTemplates ==
    {<<"m">> \o Ph(COMPILED_PROMPT) \o Ph(EXTRA_COMPILED)
          \o ExtraBlock(<<"e">> \o Ph(COMPILED_PROMPT) \o Ph(EXTRA_COMPILED)),
     ToggleTemplate(EmptyStr, COMPILED_PROMPT, EmptyStr, <<"x">>, EmptyStr)
          \o ToggleTemplate(EmptyStr, EXTRA_COMPILED, EmptyStr, <<"y">>, EmptyStr)
          \o ExtraBlock(ToggleTemplate(EmptyStr, EXTRA_COMPILED, EmptyStr, <<"w">>, EmptyStr)),
     <<"n">> \o ExtraBlock(ToggleTemplate(EmptyStr, COMPILED_PROMPT, EmptyStr, <<"u">>, EmptyStr))}

\* the other members of cachedValues
KeyBases == {<<PromptOn, ExtraOn>>, <<ExtraOn>>}

\* incoming values for a reserved key: none, a string, true, false
KeyMembers(key) ==
    {<<>>} \cup {<< <<key, lit>> >> : lit \in {<<"\"", "I", "\"">>, <<"\"", "t", "r", "u", "e", "\"">>, <<"f", "a", "l", "s", "e">>}}

KeyKwargs ==
    {EmptyDict,
     COMPILED_PROMPT :> PyStr(<<"K">>),
     EXTRA_COMPILED :> PyBool(FALSE),
     (COMPILED_PROMPT :> PyBool(FALSE)) @@ (EXTRA_COMPILED :> PyStr(<<"y", "e", "s">>))}

ReservedKeyInputs ==
    {PromptCall(t, JsonText(base \o cp \o ec), kw) :
        t \in ReservedKeyTemplates, base \in KeyBases,
        cp \in KeyMembers(COMPILED_PROMPT), ec \in KeyMembers(EXTRA_COMPILED), kw \in KeyKwargs}

\* main texts: a literal, a toggle span with a placeholder, a directive span
StageToggle == ToggleTemplate(EmptyStr, sTagA, EmptyStr, <<"x">>, EmptyStr) \o Ph(nA)
StageDirective == DirOpen(<<"u", "p">>) \o <<"m">> \o DirStop(<<"u", "p">>)
StageMains == {<<"m">>, StageToggle, StageDirective}

\* main{{compiled_prompt}}{{extra_compiled}}[%extra%]e{{compiled_prompt}}{{extra_compiled}}[%/extra%]
StageTemplate(main) ==
    main \o Ph(COMPILED_PROMPT) \o Ph(EXTRA_COMPILED)
         \o ExtraBlock(<<"e">> \o Ph(COMPILED_PROMPT) \o Ph(EXTRA_COMPILED))

StageContexts ==
    {JsonText(base \o a \o t) :
        base \in KeyBases \cup {<<PromptOn>>}, a \in {<<>>, <<ValueOfA>>},
        t \in TagMembers(sTagA)}

StageInputs ==
    {PromptCall(StageTemplate(main), cv, EmptyDict) : main \in StageMains, cv \in StageContexts}

CompileInputs ==
    NestedInputs \cup GroupedInputs \cup VarsInputs \cup ReservedKeyInputs \cup StageInputs

InitCompile ==
    /\ CallIdle
    /\ FnIdle
    /\ pb \in {<<call>> : call \in CompileInputs}

SpecCompile == InitCompile /\ [][NextPrompt]_vars

(***************************************************************************)
(* _process_directives on its own                                          *)
(***************************************************************************)
\* {%t1%}A{%t2%}B{%t2 stop%}C{%t1 stop%}
Nested(t1, A, t2, B, C) ==
    DirOpen(t1) \o A \o DirOpen(t2) \o B \o DirStop(t2) \o C \o DirStop(t1)

\* registered tags: long names and aliases, two names of one transform among them
NestTags == {<<"u", "p">>, <<"u", "p", "p", "e", "r">>, <<"t", "l">>, <<"l", "w">>, <<"t", "r">>, <<"l", "a">>, <<"s", "l">>}

NestBefores == {EmptyStr, <<"h", "e", "l", "l", "o", " ">>}
NestInners == {<<"w", "o", "r", "l", "d">>, <<" ", "b", "\n", "c", " ">>}
NestAfters == {EmptyStr, <<" ", "d">>}

NestedTexts ==
    {Nested(t1, A, t2, B, C) :
        t1 \in NestTags, t2 \in NestTags,
        A \in NestBefores, B \in NestInners, C \in NestAfters}

\* an opener without its closer, a closer without its opener, a closer before
\* its opener, the closer of another tag, an unregistered tag name, a tag name in
\* capitals, blanks inside the braces, a closer without its blank
UnmatchedTexts ==
    {<<"{", "%", "u", "p", "%", "}", "a">>,
     <<"a", "{", "%", "u", "p", " ", "s", "t", "o", "p", "%", "}">>,
     <<"{", "%", "u", "p", " ", "s", "t", "o", "p", "%", "}", "a", "{", "%", "u", "p", "%", "}">>,
     <<"{", "%", "u", "p", "%", "}", "a", "{", "%", "t", "l", " ", "s", "t", "o", "p", "%", "}">>,
     <<"{", "%", "f", "o", "o", "%", "}", "a", "{", "%", "f", "o", "o", " ", "s", "t", "o", "p", "%", "}">>,
     <<"{", "%", "U", "P", "%", "}", "a", "{", "%", "U", "P", " ", "s", "t", "o", "p", "%", "}">>,
     <<"{", "%", " ", "u", "p", " ", "%", "}", "a", "{", "%", " ", "u", "p", " ", "s", "t", "o", "p", " ", "%", "}">>,
     <<"{", "%", "u", "p", "%", "}", "a", "{", "%", "u", "p", "s", "t", "o", "p", "%", "}">>,
     <<"{", "%", "u", "p", "%", "}", "a", "{", "%", "u", "p", " ", " ", "s", "t", "o", "p", "%", "}">>,
     <<"{", "%", "u", "p", "%", "}", "a", "{", "%", "/", "u", "p", "%", "}">>,
     <<"{", "%", "u", "p", "p", "%", "}", "a", "{", "%", "u", "p", "p", " ", "s", "t", "o", "p", "%", "}">>,
     <<"a", " ", "b">>,
     <<" ">>}

\* texts in which a transform writes a directive marker, spans side by side,
\* spans three deep, and the empty text
OtherTexts ==
    {EmptyStr,
     <<"{", "%", "l", "w", "%", "}", "{", "%", "U", "P", "%", "}", "a", "{", "%", "U", "P", " ", "S", "T", "O", "P", "%", "}", "{", "%", "l", "w", " ", "s", "t", "o", "p", "%", "}">>,
     <<"{", "%", "u", "n", "e", "h", "%", "}", "&", "#", "1", "2", "3", ";", "%", "u", "p", "%", "&", "#", "1", "2", "5", ";", "a", "&", "#", "1", "2", "3", ";", "%", "u", "p", " ", "s", "t", "o", "p", "%", "&", "#", "1", "2", "5", ";", "{", "%", "u", "n", "e", "h", " ", "s", "t", "o", "p", "%", "}">>,
     <<"{", "%", "u", "n", "e", "h", "%", "}", "&", "#", "1", "2", "3", ";", "%", "u", "p", "%", "&", "#", "1", "2", "5", ";", "a", "{", "%", "u", "n", "e", "h", " ", "s", "t", "o", "p", "%", "}", "{", "%", "u", "p", " ", "s", "t", "o", "p", "%", "}">>,
     <<"{", "%", "u", "p", "%", "}", "a", "{", "%", "u", "p", " ", "s", "t", "o", "p", "%", "}", " ", "{", "%", "t", "l", "%", "}", "b", " ", "c", "{", "%", "t", "l", " ", "s", "t", "o", "p", "%", "}">>,
     <<"{", "%", "t", "r", "%", "}", " ", "{", "%", "u", "p", "%", "}", "a", "{", "%", "u", "p", " ", "s", "t", "o", "p", "%", "}", "{", "%", "t", "l", "%", "}", "b", "{", "%", "t", "l", " ", "s", "t", "o", "p", "%", "}", " ", "{", "%", "t", "r", " ", "s", "t", "o", "p", "%", "}">>,
     <<"{", "%", "t", "r", "%", "}", " ", "{", "%", "l", "w", "%", "}", "A", "{", "%", "t", "l", "%", "}", "b", " ", "c", "{", "%", "t", "l", " ", "s", "t", "o", "p", "%", "}", "{", "%", "l", "w", " ", "s", "t", "o", "p", "%", "}", " ", "{", "%", "t", "r", " ", "s", "t", "o", "p", "%", "}">>,
     <<"{", "%", "u", "p", "%", "}", "a", "{", "%", "u", "p", " ", "s", "t", "o", "p", "%", "}", "{", "%", "u", "p", " ", "s", "t", "o", "p", "%", "}">>,
     <<"{", "%", "u", "p", "%", "}", "{", "%", "u", "p", "%", "}", "a", "{", "%", "u", "p", " ", "s", "t", "o", "p", "%", "}">>,
     <<"{", "%", "l", "a", "%", "}", "a", "\n", "b", "\n", "{", "%", "u", "p", "%", "}", "c", "{", "%", "u", "p", " ", "s", "t", "o", "p", "%", "}", "{", "%", "l", "a", " ", "s", "t", "o", "p", "%", "}">>}

DirectiveTexts == NestedTexts \cup UnmatchedTexts \cup OtherTexts

\* _process_directives(text) is called
InitDirectives ==
    /\ PromptIdle
    /\ CallIdle
    /\ fn_in \in DirectiveTexts
    /\ fn_out = fn_in
    /\ fn_pc = "called"

\* `if not text: return text`, else the loop is entered
DirEnter ==
    /\ fn_pc = "called"
    /\ fn_pc' = IF Len(fn_in) = 0 THEN "returned" ELSE "scanning"
    /\ UNCHANGED <<fn_in, fn_out, callVars, pb>>

\* one pass of `while True` with a match: the inner text is processed by the
\* nested call, transformed and spliced in
DirSubstitute ==
    /\ fn_pc = "scanning"
    /\ DirSearch(fn_out).found
    /\ fn_out' = DirSplice(fn_out, DirSearch(fn_out))
    /\ UNCHANGED <<fn_in, fn_pc, callVars, pb>>

\* `if not match: break`, and the return
DirReturn ==
    /\ fn_pc = "scanning"
    /\ ~DirSearch(fn_out).found
    /\ fn_pc' = "returned"
    /\ UNCHANGED <<fn_in, fn_out, callVars, pb>>

NextDirectives == DirEnter \/ DirSubstitute \/ DirReturn

SpecDirectives == InitDirectives /\ [][NextDirectives]_vars

(***************************************************************************)
(* directive_list_and on its own                                           *)
(***************************************************************************)
MaxListLines == 3     \* lines of a drawn text

\* what a drawn line holds between its blanks: nothing, or an item
LineCores == {EmptyStr, <<"a">>, <<"b">>, <<"c">>, <<"c", " ", "d">>}

\* the blanks before and after it
LinePads == {[left |-> EmptyStr, right |-> EmptyStr], [left |-> <<" ">>, right |-> <<"\t", " ">>]}

DrawnLines == {[pad |-> pad, core |-> core] : pad \in LinePads, core \in LineCores}

LineBreaks == {<<"\n">>, <<"\r", "\n">>}

\* the text of the drawn lines
ListText(drawn) ==
    Join([k \in 1..Len(drawn.lines) |->
             drawn.lines[k].pad.left \o drawn.lines[k].core \o drawn.lines[k].pad.right],
         drawn.break)

ListInputs ==
    {[lines |-> lines, break |-> break] :
        lines \in SeqsUpTo(DrawnLines, MaxListLines), break \in LineBreaks}

InitListAnd ==
    /\ PromptIdle
    /\ CallIdle
    /\ fn_in \in ListInputs
    /\ fn_out = EmptyStr
    /\ fn_pc = "ready"

\* directive_list_and(text)
JoinList ==
    /\ fn_pc = "ready"
    /\ fn_out' = directive_list_and(ListText(fn_in))
    /\ fn_pc' = "joined"
    /\ UNCHANGED <<fn_in, callVars, pb>>

NextListAnd == JoinList

SpecListAnd == InitListAnd /\ [][NextListAnd]_vars

(***************************************************************************)
(* The VAR output of the two builders (the last lines of get_variable)     *)
(***************************************************************************)
\* final_value.replace("\n", " ")
NewlinesToSpaces(text) == [i \in 1..Len(text) |-> IF text[i] = "\n" THEN " " ELSE text[i]]

\* lines 204-214 of AdvancedVariableBuilder.get_variable
RenderAdvanced(a, final_value) ==
    IF a.out_val_by_switch /\ ~a.switch THEN EmptyStr
    ELSE IF Len(Strip(a.var_name)) > 0
    THEN Strip(a.var_name) \o <<" ", "=", " ">> \o NewlinesToSpaces(final_value)
    ELSE final_value

sTextVariableBuilder == <<"T", "e", "x", "t", "V", "a", "r", "i", "a", "b", "l", "e", "B", "u", "i", "l", "d", "e", "r">>
sAdvancedVariableBuilder == <<"A", "d", "v", "a", "n", "c", "e", "d", "V", "a", "r", "i", "a", "b", "l", "e", "B", "u", "i", "l", "d", "e", "r">>

RenderNames == {EmptyStr, <<" ">>, <<"n">>, <<" ", "n", " ">>}

\* what replace_placeholders returned: final_value is "" when switch is off
RenderValues == {EmptyStr, <<"v">>, <<"a", "\n", "b">>, <<"a", "\n", "\n", "b", " ">>, <<"\n">>, <<"a", "\r", "\n", "b">>}

RenderInputs ==
    {[builder |-> builder, args |-> Args(switch, obs, var_name, EmptyStr, List(<<>>)),
      final_value |-> final_value] :
        builder \in {sTextVariableBuilder, sAdvancedVariableBuilder},
        switch \in BOOLEAN, obs \in BOOLEAN, var_name \in RenderNames,
        final_value \in RenderValues}

InitRender ==
    /\ PromptIdle
    /\ CallIdle
    /\ fn_in \in {input \in RenderInputs : ~input.args.switch => input.final_value = EmptyStr}
    /\ fn_out = EmptyStr
    /\ fn_pc = "resolved"

\* TextVariableBuilder.get_variable from final_value to its return
RenderText ==
    /\ fn_pc = "resolved"
    /\ fn_in.builder = sTextVariableBuilder
    /\ fn_out' = Render(fn_in.args, fn_in.final_value)
    /\ fn_pc' = "returned"
    /\ UNCHANGED <<fn_in, callVars, pb>>

\* AdvancedVariableBuilder.get_variable from final_value to its return
RenderAdvancedText ==
    /\ fn_pc = "resolved"
    /\ fn_in.builder = sAdvancedVariableBuilder
    /\ fn_out' = RenderAdvanced(fn_in.args, fn_in.final_value)
    /\ fn_pc' = "returned"
    /\ UNCHANGED <<fn_in, callVars, pb>>

NextRender == RenderText \/ RenderAdvancedText

SpecRender == InitRender /\ [][NextRender]_vars

(***************************************************************************)
(* Invocations side by side: a get_variable call, then another, while two  *)
(* build_prompt calls run                                                  *)
(***************************************************************************)
\* get_variable calls free of variants and of DATE / TIME: the same names with
\* other values, one of them undefined in the second
ChainCall ==
    Args(TRUE, FALSE, EmptyStr, Ph(nA) \o Ph(nB),
         List(<<Assign(nA, <<"x">> \o Ph(nB)), Assign(nB, <<"y">>)>>))
OtherCall ==
    Args(TRUE, FALSE, EmptyStr, Ph(nA) \o Ph(nB) \o Ph(sDefault), List(<<Assign(nA, <<"1">>)>>))

ConcurrentArgs == {ChainCall, OtherCall, CycleExample, DefaultExample}

\* build_prompt calls: one template, which reads the compiled_prompt that the
\* call has written into its context, under two contexts
ConcurrentTemplate ==
    <<"M">> \o Ph(nA) \o <<"{", "%", "u", "p", "%", "}", "x", "{", "%", "u", "p", " ", "s", "t", "o", "p", "%", "}">> \o ExtraBlock(<<"E">> \o Ph(COMPILED_PROMPT))

ConcurrentPrompts ==
    {PromptCall(ConcurrentTemplate, JsonText(<<PromptOn, ExtraOn, ValueOfA>>), EmptyDict),
     PromptCall(ConcurrentTemplate, JsonText(<<PromptOn, <<nA, <<"\"", "w", "\"">>>>>>),
                sExtraActive :> PyBool(TRUE))}

InitConcurrent ==
    /\ FnIdle
    /\ args \in ConcurrentArgs
    /\ now = Clock
    /\ raw_dict = EmptyDict
    /\ default_single_line = EmptyStr
    /\ resolved_cache = EmptyDict
    /\ frames = <<>>
    /\ pc = "start"
    /\ req = EmptyStr
    /\ VAR = EmptyStr
    /\ log = {}
    /\ ev = NoEv
    /\ err = FALSE
    /\ steps = 0
    /\ pb \in {<<first, second>> : first \in ConcurrentPrompts, second \in ConcurrentPrompts}

\* the host calls get_variable again once the call has returned: the names
\* raw_dict, default_single_line and resolved_cache still hold what the call
\* before bound them to, until lines 73-77 bind them anew
CallAgain ==
    /\ pc = "done"
    /\ args # OtherCall
    /\ args' = OtherCall
    /\ pc' = "start"
    /\ req' = EmptyStr
    /\ VAR' = EmptyStr
    /\ log' = {}
    /\ ev' = NoEv
    /\ err' = FALSE
    /\ steps' = 0
    /\ UNCHANGED <<now, raw_dict, default_single_line, resolved_cache, frames, fnVars, pb>>

NextConcurrent ==
    \/ Begin \/ Scan \/ ResolveVariable \/ Return \/ Finish \/ CallAgain
    \/ LoadContext \/ ExtractBlocks \/ CompileMain \/ CompileExtra \/ ApplyDirectives

SpecConcurrent == InitConcurrent /\ [][NextConcurrent]_vars

(***************************************************************************)
(* Claims                                                                  *)
(***************************************************************************)
\* "{{" occurrences: no text has more matches of placeholder_pattern
RECURSIVE NumOpenings(_)
NumOpenings(text) ==
    LET i == Find(text, <<"{", "{">>)
    IN  IF i = 0 THEN 0 ELSE 1 + NumOpenings(From(text, i + 1))

RECURSIVE SumOpenings(_, _)
SumOpenings(d, names) ==
    IF names = {} THEN 0
    ELSE LET n == CHOOSE x \in names : TRUE
         IN  NumOpenings(d[n]) + SumOpenings(d, names \ {n})

\* Begin and the last return, a return per defined name, and for every
\* placeholder of the template and of the raw values a repl and a call
StepBound ==
    2 + Cardinality(DOMAIN raw_dict)
      + 2 * (NumOpenings(args.var_value) + SumOpenings(raw_dict, DOMAIN raw_dict))

\* the call has returned or raised, or the guard of one of its steps holds: of Begin at
\* "start", of ResolveVariable at "call", and at "scan" of Scan (a match is
\* left), of Return (none, in a value) or of Finish (none, in the template)
ReturnedOrRunning ==
    /\ pc \in {"start", "scan", "call", "done", "raised"}
    /\ pc \in {"scan", "call"} =>
          /\ Len(frames) >= 1
          /\ \A i \in 1..Len(frames) : frames[i].top <=> (i = 1)

\* C1: resolution terminates for every template and every RawValueMap, cyclic
\* ones included (it takes a bounded number of steps and stops only when
\* get_variable has returned), and the depth of nested resolve_variable calls
\* never exceeds the number of names the RawValueMap defines plus one.
C1_TerminatesWithinDepth ==
    /\ Depth <= Cardinality(DOMAIN raw_dict) + 1
    /\ steps <= StepBound
    /\ ReturnedOrRunning

\* a request for a name on the stack arrives with every defined name on the
\* stack, three of them, the ring closing through a branch of IF or through ??
C1_Witness ==
    /\ pc = "call"
    /\ OnStack(req)
    /\ Cardinality(DOMAIN raw_dict) = 3
    /\ Depth = 4
    /\ ev.kind \in {"if", "fallback"}

\* C2: a name requested while it is on the CallStack yields the empty string
\* and the enclosing resolution goes on; the CallStack never holds a name
\* twice; {a: "{{b}}", b: "{{a}}"} resolves "{{a}}" to "".
C2_CycleRule ==
    /\ \A e \in log : e.cyclic => e.value = EmptyStr
    /\ \A i, j \in 1..Len(CallStack) : CallStack[i] = CallStack[j] => i = j
    /\ (\E e \in log : e.cyclic) => ~err /\ pc \in {"scan", "call", "done"}
    /\ args = CycleExample /\ pc = "done" => VAR = EmptyStr

\* a cyclic request was answered and the call went on to return a text
C2_Witness ==
    /\ pc = "done"
    /\ \E e \in log : e.cyclic
    /\ Len(VAR) > 0

\* C3 as stated: every request for a name yields the same string, wherever it
\* occurs.
C3_EveryRequestSame ==
    \A e1, e2 \in log : e1.name = e2.name => e1.value = e2.value

sAA == <<"a", "-", "a">>
sBB == <<"b", "-", "b">>
sCC == <<"c", "-", "c">>

\* C3, amended: every request for a name made while the name is not on the
\* CallStack yields the same string, whatever its variants (a request made
\* while it is on the CallStack yields ""); "{{x}}-{{x}}" with x = "a|b|c"
\* gives two identical halves.
C3_SameOffStack ==
    /\ \A e1, e2 \in log :
          e1.name = e2.name /\ ~e1.cyclic /\ ~e2.cyclic => e1.value = e2.value
    /\ args = VariantExample /\ pc = "done" => VAR \in {sAA, sBB, sCC}

\* a name with two variants was requested twice and gave its second variant twice
C3_Witness ==
    /\ pc = "done"
    /\ args.var_value = Ph(nA) \o Ph(nA)
    /\ Get(raw_dict, nA) = <<"1", "|", "0">>
    /\ VAR = <<"0", "0">>

\* the lines parse_input_lines is given
InputLines == split_input_lines(args.INPUT_VAR)

HasEq(line) == \E k \in 1..Len(line) : line[k] = "="

FirstEq(line) ==
    CHOOSE k \in 1..Len(line) : line[k] = "=" /\ \A j \in 1..(k - 1) : line[j] # "="

NameOf(line) == Strip(SubSeq(line, 1, FirstEq(line) - 1))

ValueOf(line) == Strip(SubSeq(line, FirstEq(line) + 1, Len(line)))

\* the non-empty lines with "=", and those without
Definitions == {i \in 1..Len(InputLines) : Len(InputLines[i]) > 0 /\ HasEq(InputLines[i])}

Defaults == {i \in 1..Len(InputLines) : Len(InputLines[i]) > 0 /\ ~HasEq(InputLines[i])}

sBar == <<"b", "a", "r">>
sBaz == <<"b", "a", "z">>

\* C4: parse_input_lines maps every non-empty line with "=" to name -> value,
\* split at the first "=" and trimmed, the last line of a name winning; blank
\* lines are skipped; DefaultValue is the last non-empty line without "=" ("" if
\* none); ["foo=bar", "baz"] gives ({foo: "bar"}, "baz") and "{{default}}" then
\* resolves to "baz".
C4_ParseInputLines ==
    pc # "start" =>
      /\ DOMAIN raw_dict = {NameOf(InputLines[i]) : i \in Definitions}
      /\ \A i \in Definitions :
            (\A j \in Definitions : j > i => NameOf(InputLines[j]) # NameOf(InputLines[i]))
              => raw_dict[NameOf(InputLines[i])] = ValueOf(InputLines[i])
      /\ Defaults = {} => default_single_line = EmptyStr
      /\ \A i \in Defaults :
            (\A j \in Defaults : j <= i) => default_single_line = InputLines[i]
      /\ args = DefaultExample =>
            /\ raw_dict = (nFoo :> sBar)
            /\ default_single_line = sBaz
            /\ pc = "done" => VAR = sBaz

\* a name defined twice, the second value holding a "=": the later line won,
\* split at its first "="
C4_Witness ==
    /\ pc = "done"
    /\ args.INPUT_VAR.type = "list"
    /\ Len(args.INPUT_VAR.items) = 2
    /\ args.INPUT_VAR.items[1] = Assign(nFoo, sBar)
    /\ raw_dict = (nFoo :> <<"b", "=", "r">>)

IsQuoted(tok) ==
    /\ Len(Strip(tok)) >= 2
    /\ Head(Strip(tok)) = "\""
    /\ Strip(tok)[Len(Strip(tok))] = "\""

Unquoted(tok) == SubSeq(Strip(tok), 2, Len(Strip(tok)) - 1)

IsNegated(inner) == StartsWith(Upper(inner), sIFNOT)

\* the branch of IF:cond:T:F / IFNOT:cond:T:F the value cond of the condition selects
Selected(inner, cond) ==
    LET parts == Split(inner, sColon)
    IN  IF cond # IsNegated(inner) THEN parts[3]
        ELSE IF Len(parts) > 3 THEN parts[4] ELSE EmptyStr

\* C5: a well-formed {{IF:cond:T:F}} emits from T when cond is true and from F
\* ("" when omitted) otherwise, {{IFNOT:cond:T:F}} the opposite branch; a branch
\* in double quotes is emitted without its quotes, another is resolved as a
\* variable name; with flag = "true", {{IF:flag:"yes":"no"}} gives "yes" and
\* {{IFNOT:flag:"yes":"no"}} gives "no".
C5_ConditionalBranches ==
    /\ ev.kind = "if" =>
          /\ Len(Split(ev.inner, sColon)) >= 3
          /\ \E rnd \in Draws(Split(ev.inner, sColon)[2], raw_dict) :
                ev.cond = raw_as_bool(Split(ev.inner, sColon)[2], raw_dict,
                                      default_single_line, rnd)
          /\ IF IsQuoted(Selected(ev.inner, ev.cond))
             THEN /\ ~ev.called
                  /\ pc = "scan"
                  /\ ev.emitted = Unquoted(Selected(ev.inner, ev.cond))
             ELSE /\ ev.called
                  /\ pc = "call"
                  /\ req = Selected(ev.inner, ev.cond)
    /\ args = IfExample /\ pc = "done" => VAR = sYes
    /\ args = IfNotExample /\ pc = "done" => VAR = sNo

\* an IFNOT whose condition is true: its false branch is resolved as a variable
C5_Witness ==
    /\ ev.kind = "if"
    /\ IsNegated(ev.inner)
    /\ ev.cond
    /\ ev.called
    /\ req = nA

\* C6: {{v??f}} emits the resolved value of v when it is non-empty, otherwise f
\* without its surrounding double quotes; an unquoted f is literal text and is
\* never resolved, even when it names a defined variable; with x undefined,
\* {{x??"fallback"}} gives "fallback".
C6_FallbackOperator ==
    /\ ev.kind = "fallback" /\ ev.called =>
          /\ pc = "call"
          /\ req = Strip(Split1(ev.inner, sFallback)[1])
    /\ ev.kind = "fallback" /\ ~ev.called =>
          /\ \E e \in log : /\ e.name = Strip(Split1(ev.inner, sFallback)[1])
                            /\ e.value = ev.value
          /\ ev.emitted =
                IF Len(ev.value) > 0 THEN ev.value
                ELSE IF IsQuoted(Split1(ev.inner, sFallback)[2])
                THEN Unquoted(Split1(ev.inner, sFallback)[2])
                ELSE Strip(Split1(ev.inner, sFallback)[2])
    /\ args.var_value = Fallback(nU, nB) /\ pc = "done" =>
          /\ VAR = nB
          /\ \A e \in log : e.name # nB
    /\ args = FallbackExample /\ pc = "done" => VAR = sFallbackText

\* {{u??b}} with u undefined and b defined: the text b came out, b's value did not
C6_Witness ==
    /\ pc = "done"
    /\ args.var_value = Fallback(nU, nB)
    /\ nB \in DOMAIN raw_dict
    /\ raw_dict[nB] = <<"0">>
    /\ VAR = nB

\* what a piece of text around a placeholder comes to, b having the value vb
AroundValue(piece, vb) == IF piece = Ph(nB) THEN vb ELSE piece

\* the values resolve_variable returned for name to the template
ValuesOf(name) ==
    IF \E e \in log : e.name = name /\ ~e.cyclic
    THEN {e.value : e \in {l \in log : l.name = name /\ ~l.cyclic}}
    ELSE {EmptyStr}

\* C8: get_variable returns normally and never raises; a placeholder of an
\* undefined variable and an IF / IFNOT placeholder with fewer than two parts
\* after the keyword contribute "", and the text and placeholders around them
\* come out as if the bad placeholder were absent.
C8_Total ==
    /\ ~err
    /\ pc # "raised"
    /\ ReturnedOrRunning
    /\ ev.kind = "malformed" => ~ev.called /\ ev.emitted = EmptyStr /\ pc = "scan"
    /\ ev.kind # "none" /\ (StartsWith(Upper(ev.inner), sIF) \/ IsNegated(ev.inner)) =>
          (Len(Split(ev.inner, sColon)) - 1 < 2 <=> ev.kind = "malformed")
    /\ \A e \in log :
          e.name \notin DOMAIN raw_dict \cup {sDefault, sDef, sUnderscore}
            => e.value = EmptyStr
    /\ pc = "done" =>
          \A pre \in Around, post \in Around, bad \in BadItems :
              args.var_value = pre \o bad \o post =>
                  \E vb \in ValuesOf(nB) :
                      VAR = AroundValue(pre, vb) \o AroundValue(post, vb)

\* what evaluate_part_bool is to say of one operand, r being its draw
OperandTrue(op, rawd, r) ==
    CASE Lower(op) = sTrue -> TRUE
      [] Lower(op) = sFalse -> FALSE
      [] OTHER -> /\ Lower(choose_variant(Get(rawd, op), r)) # EmptyStr
                  /\ Lower(choose_variant(Get(rawd, op), r)) # <<"0">>
                  /\ Lower(choose_variant(Get(rawd, op), r)) # sFalse
                  /\ Lower(choose_variant(Get(rawd, op), r)) # sNone

XYExample == (nX :> sTrue) @@ (nY :> <<"0">>)

\* C7: on a token with && raw_as_bool is true exactly when every &&-separated
\* operand is true, also when || appears too; on a token with || and no && it
\* is true exactly when some ||-separated operand is true; an operand is the
\* literal true / false or a variable name tested against {"", "0", "false",
\* "none"}; with {x: "true", y: "0"}, "x&&y" is False and "x||y" is True.
C7_CompoundBool ==
    fn_pc = "done" =>
      /\ Contains(fn_in.token, sAnd) =>
            fn_out.value =
              (\A k \in 1..Len(Split(fn_in.token, sAnd)) :
                  OperandTrue(Strip(Split(fn_in.token, sAnd)[k]), fn_in.raw_dict,
                              fn_out.rnd[k]))
      /\ ~Contains(fn_in.token, sAnd) /\ Contains(fn_in.token, sOr) =>
            fn_out.value =
              (\E k \in 1..Len(Split(fn_in.token, sOr)) :
                  OperandTrue(Strip(Split(fn_in.token, sOr)[k]), fn_in.raw_dict,
                              fn_out.rnd[k]))
      /\ fn_in.token = sTrue \o sOr \o sTrue \o sAnd \o sTrue => ~fn_out.value
      /\ fn_in.raw_dict = XYExample /\ fn_in.token = nX \o sAnd \o nY => ~fn_out.value
      /\ fn_in.raw_dict = XYExample /\ fn_in.token = nX \o sOr \o nY => fn_out.value

\* true||true&&true: the AND-split was used, its operand true||true is no variable
C7_Witness ==
    /\ fn_pc = "done"
    /\ fn_in.token = sTrue \o sOr \o sTrue \o sAnd \o sTrue
    /\ ~fn_out.value

\* C9: strip_all_comments(strip_all_comments(x)) = strip_all_comments(x) for
\* every text x, also where removing a /* */ span brings a / and a * together.
C9_Idempotent == fn_pc = "twice" => fn_out.twice = fn_out.once

\* C10: the text from // to the end of its line is not in the output of
\* strip_all_comments, as for # comments and /* */ comments.
C10_NoSlashSlash ==
    fn_pc = "once" /\ ~Contains(fn_in, <<"/", "*">>) => ~Contains(fn_out.once, <<"/", "/">>)


\* the value is a boolean true, or its string form is true / 1 / yes / + in any case
CoercesTrue(value) ==
    \/ value = PyBool(TRUE)
    \/ value.type # "bool" /\ Lower(PyToStr(value)) \in {<<"t", "r", "u", "e">>, <<"1">>, <<"y", "e", "s">>, <<"+">>}

\* the merged context has the key, and its value coerces to true
Active(cache, key) == key \in DOMAIN cache /\ CoercesTrue(cache[key])

\* the text the context gives for a piece that is a literal or {{a}}
Filled(piece, cache) ==
    IF piece = Ph(nA) THEN (IF nA \in DOMAIN cache THEN PyToStr(cache[nA]) ELSE EmptyStr)
    ELSE piece

\* C11: with promptTextActive true, [[TAG]]inner[[/TAG]] and
\* [[TAG:GROUP]]inner[[/TAG]] are replaced by inner when the merged context has
\* no TAG or a value for TAG that coerces to true, and are removed with their
\* tags otherwise; "A[[show]]B[[/show]]C" gives "AC" with {show: false} and
\* "ABC" with no show key.
C11_ToggleTags ==
    \A c \in DOMAIN pb :
       pb[c].pc = "done" /\ Active(pb[c].cache, sPromptTextActive) =>
         /\ \A before \in Befores, group \in Groups, inner \in Inners, after \in Afters :
               pb[c].prompt = ToggleTemplate(before, sShow, group, inner, after) =>
                 pb[c].compiled_prompt =
                   before
                     \o (IF sShow \notin DOMAIN pb[c].cache \/ CoercesTrue(pb[c].cache[sShow])
                         THEN Filled(inner, pb[c].cache) ELSE EmptyStr)
                     \o after
         /\ pb[c].prompt = <<"A", "[", "[", "s", "h", "o", "w", "]", "]", "B", "[", "[", "/", "s", "h", "o", "w", "]", "]", "C">> =>
               /\ sShow \notin DOMAIN pb[c].cache => pb[c].compiled_prompt = <<"A", "B", "C">>
               /\ DictGet(pb[c].cache, sShow, PyNone) = PyBool(FALSE) =>
                     pb[c].compiled_prompt = <<"A", "C">>

\* a span with a group whose tag has the string "0": removed with its tags
C11_Witness ==
    \E c \in DOMAIN pb :
       /\ pb[c].pc = "done"
       /\ pb[c].prompt = ToggleTemplate(<<"A">>, sShow, sGrp, <<"B">>, <<"C">>)
       /\ DictGet(pb[c].cache, sShow, PyNone) = PyStr(<<"0">>)
       /\ pb[c].compiled_prompt = <<"A", "C">>


\* the keyword inputs with one more
With(kwargs, key, value) == (key :> value) @@ kwargs

\* the outputs of the call c for another value of a gate
Regated(c, key, value) ==
    build_prompt(pb[c].prompt, pb[c].cachedValues, With(pb[c].kwargs, key, value))

\* what C12 says of each gate by itself
GateCloses(c) ==
    /\ ~Active(pb[c].cache, sPromptTextActive) => pb[c].compiled_prompt = EmptyStr
    /\ ~Active(pb[c].cache, sExtraActive) => pb[c].extra_compiled = EmptyStr
    /\ ~Contains(pb[c].prompt, BlockOpen(sExtra)) => pb[c].extra_compiled = EmptyStr
    /\ \A main \in GateMains :
          pb[c].prompt = main \o ExtraBlock(EmptyStr) => pb[c].extra_compiled = EmptyStr

StringOf(cache, name) == IF name \in DOMAIN cache THEN PyToStr(cache[name]) ELSE EmptyStr

\* C13: {{NAME:TYPE:VALUE:DEFAULT}}, {{NAME}} and {{NAME:anything}} are each
\* replaced by the string form of the merged context's value for NAME ("" when
\* NAME is absent), and two templates that differ only in the TYPE, VALUE or
\* DEFAULT fields of a placeholder compile to the same outputs under the same
\* context.
C13_NameOnly ==
    \A c \in DOMAIN pb :
       pb[c].pc = "done" /\ pb[c].prompt \in TypedTemplates \cup ShortTemplates =>
         /\ pb[c].compiled_prompt = <<"P">> \o StringOf(pb[c].cache, nA) \o <<"Q">>
         /\ pb[c].prompt \in TypedTemplates =>
               \A t \in TypedTemplates :
                  /\ build_prompt(t, pb[c].cachedValues, pb[c].kwargs).compiled_prompt
                        = pb[c].compiled_prompt
                  /\ build_prompt(t, pb[c].cachedValues, pb[c].kwargs).extra_compiled
                        = pb[c].extra_compiled


\* the transform registered for a tag, applied
Transformed(tag, text) == ApplyDirective(DIRECTIVE_FUNCS[tag], text)

\* the text holds {%t%} or {%t stop%} of a registered tag
HasMarker(text) ==
    \E tag \in DOMAIN DIRECTIVE_FUNCS : Contains(text, DirOpen(tag)) \/ Contains(text, DirStop(tag))

\* C14: for any two registered tags t1 and t2, equal or distinct,
\* {%t1%}A{%t2%}B{%t2 stop%}C{%t1 stop%} compiles to f1(A + f2(B) + C) with no
\* directive marker left; "{%up%}hello {%tl%}world{%tl stop%}{%up stop%}" gives
\* "HELLO WORLD".
C14_InnermostFirst ==
    fn_pc = "returned" =>
      /\ \A t1 \in NestTags, t2 \in NestTags :
           \A A \in NestBefores, B \in NestInners, C \in NestAfters :
              fn_in = Nested(t1, A, t2, B, C) =>
                /\ fn_out = Transformed(t1, A \o Transformed(t2, B) \o C)
                /\ ~HasMarker(fn_out)
      /\ fn_in = <<"{", "%", "u", "p", "%", "}", "h", "e", "l", "l", "o", " ", "{", "%", "t", "l", "%", "}", "w", "o", "r", "l", "d", "{", "%", "t", "l", " ", "s", "t", "o", "p", "%", "}", "{", "%", "u", "p", " ", "s", "t", "o", "p", "%", "}">> => fn_out = <<"H", "E", "L", "L", "O", " ", "W", "O", "R", "L", "D">>


\* no registered tag has its opener with its closer somewhere after it
NoPair(text) ==
    \A tag \in DOMAIN DIRECTIVE_FUNCS :
       \A i \in 1..Len(text) :
          OccursAt(text, DirOpen(tag), i) =>
             \A j \in (i + Len(DirOpen(tag)))..Len(text) : ~OccursAt(text, DirStop(tag), j)

\* the characters a marker can come from: a brace, or a character reference
\* that unescape_html may turn into one
Pending(text) == Cardinality({i \in 1..Len(text) : text[i] \in {"{", "&"}})

\* C15: _process_directives terminates on every input (every pass of its loop
\* takes an opener and a closer out of the text and no transform writes a brace
\* that was not there as a brace or a character reference, so the passes are
\* bounded by Pending of the input); on return the text holds no complete
\* {%t%}...{%t stop%} pair of a registered tag; and a text with only unmatched
\* or malformed markers (an opener without its closer, a closer without its
\* opener, an unregistered tag name) is returned unchanged.
C15_TerminalState ==
    /\ [][fn_pc = "scanning" /\ fn_pc' = "scanning" => Pending(fn_out') < Pending(fn_out)]_vars
    /\ [](fn_pc = "returned" =>
            /\ NoPair(fn_out)
            /\ (NoPair(fn_in) \/ fn_in \in UnmatchedTexts) => fn_out = fn_in)

\* a call returned after a transform had written the opener of a later span
C15_Witness ==
    /\ fn_pc = "returned"
    /\ fn_in = <<"{", "%", "u", "n", "e", "h", "%", "}", "&", "#", "1", "2", "3", ";", "%", "u", "p", "%", "&", "#", "1", "2", "5", ";", "a", "{", "%", "u", "n", "e", "h", " ", "s", "t", "o", "p", "%", "}", "{", "%", "u", "p", " ", "s", "t", "o", "p", "%", "}">>
    /\ fn_out = <<"A">>


\* the items of the drawn lines: what each holds between its blanks, when it holds anything
Items(lines) ==
    SelectSeq([k \in 1..Len(lines) |-> lines[k].core], LAMBDA core : core # EmptyStr)

\* the n items joined as C16 says
AndJoined(items) ==
    IF Len(items) = 0 THEN EmptyStr
    ELSE IF Len(items) = 1 THEN items[1]
    ELSE Join(SubSeq(items, 1, Len(items) - 1), <<",", " ">>) \o <<" ", "a", "n", "d", " ">> \o items[Len(items)]

\* C16: directive_list_and trims every line, drops the empty ones, and joins the
\* remaining n items: "" for n = 0, the item for n = 1, the first n-1 items
\* joined by ", " then " and " and the last item for n >= 2; "a\nb\nc" gives
\* "a, b and c" and "a" gives "a".
C16_ListAnd ==
    fn_pc = "joined" =>
      /\ fn_out = AndJoined(Items(fn_in.lines))
      /\ ListText(fn_in) = <<"a", "\n", "b", "\n", "c">> => fn_out = <<"a", ",", " ", "b", " ", "a", "n", "d", " ", "c">>
      /\ ListText(fn_in) = <<"a">> => fn_out = <<"a">>

\* three lines, the second blank, the others with blanks around their items
C16_Witness ==
    /\ fn_pc = "joined"
    /\ ListText(fn_in) = <<" ", "a", "\t", " ", "\n", " ", "\t", " ", "\n", " ", "c", " ", "d", "\t", " ">>
    /\ fn_out = <<"a", " ", "a", "n", "d", " ", "c", " ", "d">>


\* C17: for every cachedValues string that does not decode to a JSON object
\* (text that is not JSON, and JSON such as [], null or 5) build_prompt does not
\* raise, takes an empty mapping for the cached values and compiles the
\* template with the keyword inputs as the only context.
C17_MalformedContext ==
    \A c \in DOMAIN pb :
       pb[c].cachedValues \in MalformedContexts =>
         /\ pb[c].pc # "raised"
         /\ pb[c].pc = "done" =>
               /\ pb[c].compiled_prompt
                     = build_prompt(pb[c].prompt, sEmptyObject, pb[c].kwargs).compiled_prompt
               /\ pb[c].extra_compiled
                     = build_prompt(pb[c].prompt, sEmptyObject, pb[c].kwargs).extra_compiled


\* the text with a space for every newline, written from its lines
Spaced(text) == Join(Split(text, <<"\n">>), <<" ">>)

\* C18: in both builders, when var_name is non-empty after trimming the VAR
\* output is "<name> = <value>" with every newline of <value> replaced by a
\* space, and when var_name is empty the VAR output is the resolved value with
\* its newlines kept (for a call whose output the switch does not blank).
C18_Rendering ==
    fn_pc = "returned" /\ ~(fn_in.args.out_val_by_switch /\ ~fn_in.args.switch) =>
       IF Strip(fn_in.args.var_name) # EmptyStr
       THEN fn_out = Strip(fn_in.args.var_name) \o <<" ", "=", " ">> \o Spaced(fn_in.final_value)
       ELSE fn_out = fn_in.final_value


\* what each get_variable call returns when nothing else runs
AloneVAR ==
    (ChainCall :> <<"x", "y", "y">>) @@ (OtherCall :> <<"1">>) @@ (CycleExample :> EmptyStr)
      @@ (DefaultExample :> <<"b", "a", "z">>)

\* the build_prompt call c run by itself, from its own arguments: its outputs
\* and every local
Alone(c) == build_prompt(pb[c].prompt, pb[c].cachedValues, pb[c].kwargs)

CondToken == Split(ev.inner, sColon)[2]

\* C20: within one get_variable call the truthiness used for {{IF:x:...}}
\* equals the truthiness (against "", "0", "false", "none") of the string that
\* {{x}} emits in that call, also when x has several | variants or a raw value
\* with placeholders.
C20_ConditionOnResolved ==
    ev.kind = "if" /\ Len(Split(ev.inner, sColon)) >= 3 =>
       \A e \in log :
          e.name = CondToken /\ e.name \in DOMAIN raw_dict /\ ~e.cyclic =>
             ev.cond = Truthy(e.value)


\* the token is empty or one of the reserved names default, def, _
IsDefaultToken(token) ==
    Len(token) = 0 \/ Strip(Lower(token)) \in {sDefault, sDef, sUnderscore}

\* C21: for a token that is empty or equals default, def or _, raw_as_bool
\* returns the truthiness of the supplied default value, for every default
\* value (the empty one included) and whatever raw_dict holds under those names.
C21_DefaultToken ==
    fn_pc = "done" /\ IsDefaultToken(fn_in.token) =>
        fn_out.value = Truthy(fn_in.default_single_line)


\* the default value the INPUT_VAR list of the call supplies
SuppliedDefault ==
    IF \E i \in 1..Len(args.INPUT_VAR.items) : args.INPUT_VAR.items[i] = DefaultLine
    THEN DefaultLine ELSE EmptyStr

\* C22: {{default}}, {{def}}, {{_}} and {{}} each resolve to the default value,
\* also when raw_dict defines a variable named default, def or _, and no such
\* resolution is stored in resolved_cache.
C22_ReservedNames ==
    /\ ev.kind = "default" => ev.emitted = SuppliedDefault
    /\ \A e \in log : e.name \in ReservedNames => e.value = SuppliedDefault /\ ~e.cyclic
    /\ DOMAIN resolved_cache \cap ReservedNames = {}
    /\ pc = "done" /\ args.var_value \in ReservedPlaceholders => VAR = SuppliedDefault

\* {{def}} was resolved in a call whose INPUT_VAR defines def and a default line
C22_Witness ==
    /\ pc = "done"
    /\ args.var_value = Ph(sDef)
    /\ sDef \in DOMAIN raw_dict
    /\ VAR = DefaultLine
    /\ \E e \in log : e.name = sDef


\* C23: for a string of any number n of newline-separated lines,
\* split_input_lines returns one element per line, no element contains a
\* newline, and every line of the form name = value defines its own variable
\* in raw_dict, for n above 11 as well as below.
C23_EveryLineOnItsOwn ==
    fn_pc = "parsed" =>
        /\ Len(fn_out.lines) = fn_in.n
        /\ \A i \in 1..Len(fn_out.lines) :
              \A k \in 1..Len(fn_out.lines[i]) : ~IsNewline(fn_out.lines[i][k])
        /\ \A k \in 1..fn_in.n :
              /\ <<LineNames[k]>> \in DOMAIN fn_out.raw
              /\ fn_out.raw[<<LineNames[k]>>] = <<LineNames[k], LineNames[k]>>


\* the tag is on: the merged context has no value for it, or one that coerces to true
TagEnabled(cache, tag) == tag \notin DOMAIN cache \/ CoercesTrue(cache[tag])

\* C24: for a span [[A]]x[[B]]y[[/B]]z[[/A]] with A enabled, the inner span is
\* kept as y when B is enabled and removed when B is disabled, and in either
\* case no [[B]] or [[/B]] marker remains in the compiled output.
C24_NestedToggles ==
    \A c \in DOMAIN pb :
       pb[c].pc = "done" /\ TagEnabled(pb[c].cache, sTagA) =>
          \A before \in {EmptyStr, <<"p">>}, x \in {EmptyStr, <<"x">>}, z \in {EmptyStr, <<"z">>} :
             pb[c].prompt = NestedTags(before, x, <<"y">>, z, <<"q">>) =>
                /\ pb[c].compiled_prompt =
                      before \o x
                        \o (IF TagEnabled(pb[c].cache, sTagB) THEN <<"y">> ELSE EmptyStr)
                        \o z \o <<"q">>
                /\ ~Contains(pb[c].compiled_prompt, TagText(sTagB, EmptyStr))
                /\ ~Contains(pb[c].compiled_prompt, TagEnd(sTagB))

\* the two outputs of a call
Outputs(call) == <<call.compiled_prompt, call.extra_compiled>>

C26_VarsIgnored ==
    \A c \in DOMAIN pb :
       pb[c].pc = "done" =>
          \A inner \in VarsContents :
             pb[c].prompt = VarsTemplate(inner) =>
                Outputs(pb[c]) = Outputs(build_prompt(VarsTemplate(EmptyStr),
                                                      pb[c].cachedValues, pb[c].kwargs))


\* C27: the values supplied for compiled_prompt and extra_compiled in
\* cachedValues or in the keyword inputs never influence either output: a call
\* returns what the call without these two keys returns.
C27_ReservedKeysIgnored ==
    \A c \in DOMAIN pb :
       pb[c].pc = "done" /\ pb[c].prompt \in ReservedKeyTemplates =>
          \A base \in KeyBases, cp \in KeyMembers(COMPILED_PROMPT),
             ec \in KeyMembers(EXTRA_COMPILED) :
                pb[c].cachedValues = JsonText(base \o cp \o ec) =>
                   Outputs(pb[c]) = Outputs(build_prompt(pb[c].prompt, JsonText(base), EmptyDict))

\* a call that was given both keys in cachedValues and compiled_prompt as a
\* keyword input, and whose main template reads them
C27_Witness ==
    \E c \in DOMAIN pb :
       /\ pb[c].pc = "done"
       /\ pb[c].cachedValues = JsonText(<<PromptOn, ExtraOn, <<COMPILED_PROMPT, <<"\"", "I", "\"">>>>,
                                          <<EXTRA_COMPILED, <<"\"", "t", "r", "u", "e", "\"">>>> >>)
       /\ pb[c].kwargs = COMPILED_PROMPT :> PyStr(<<"K">>)
       /\ pb[c].compiled_prompt = <<"m">>
       /\ pb[c].extra_compiled = <<"e", "m">>


\* a # that no backslash precedes
UnescapedHashAt(line, i) == line[i] = "#" /\ (i = 1 \/ line[i - 1] # "\\")

\* the line up to its first # that is not escaped
BeforeUnescapedHash(line) ==
    IF \E i \in 1..Len(line) : UnescapedHashAt(line, i)
    THEN SubSeq(line, 1, (CHOOSE i \in 1..Len(line) :
                             /\ UnescapedHashAt(line, i)
                             /\ \A j \in 1..(i - 1) : ~UnescapedHashAt(line, j)) - 1)
    ELSE line

\* C28: the line-comment pass truncates a line at its first # that is not
\* escaped, so a # preceded by a backslash is kept in the output together with
\* the text after it.
C28_EscapedHashKept ==
    fn_pc = "once" =>
        fn_out.once = Join([i \in 1..Len(SplitLines(fn_in)) |->
                               BeforeUnescapedHash(SplitLines(fn_in)[i])], <<"\n">>)


\* C29: {{DATE}} always emits exactly the eight digits YYYYMMDD and {{TIME}}
\* exactly the six digits HHMMSS, leading zeros kept, at every clock time
\* (00:05:09 is emitted as "000509").
C29_FixedWidth ==
    /\ ev.kind = "date" => ev.emitted = now.date /\ Len(ev.emitted) = 8
    /\ ev.kind = "time" => ev.emitted = now.time /\ Len(ev.emitted) = 6
    /\ pc = "done" /\ args.var_value = Ph(sTIME) /\ now.time = <<"0", "0", "0", "5", "0", "9">> => VAR = <<"0", "0", "0", "5", "0", "9">>


\* the main text after toggle and placeholder substitution, before the gate
\* and the directives
MainText(main, cache) ==
    IF main = StageToggle
    THEN (IF TagEnabled(cache, sTagA) THEN <<"x">> ELSE EmptyStr) \o StringOf(cache, nA)
    ELSE main

\* C30: build_prompt stores the main template's compiled text (after toggle
\* and placeholder substitution, before gating and directives) under
\* compiled_prompt in the context before it compiles the extra block: the
\* context has neither reserved key until the main stage is over and has that
\* text from then on; the step that compiles the extra block replaces
\* {{compiled_prompt}} by it, also with promptTextActive off; and
\* {{compiled_prompt}}, {{extra_compiled}} in the main template and
\* {{extra_compiled}} in the extra block are replaced by the empty string.
C30_StageOrder ==
    /\ [](\A c \in DOMAIN pb :
            pb[c].pc \in {"loaded", "extracted"} =>
               DOMAIN pb[c].cache \cap {COMPILED_PROMPT, EXTRA_COMPILED} = {})
    /\ [](\A c \in DOMAIN pb : \A main \in StageMains :
            pb[c].pc \in {"main", "extra", "done"} /\ pb[c].prompt = StageTemplate(main) =>
               /\ DictGet(pb[c].cache, COMPILED_PROMPT, PyNone)
                     = PyStr(MainText(main, pb[c].cache))
               /\ EXTRA_COMPILED \notin DOMAIN pb[c].cache)
    /\ [](\A c \in DOMAIN pb : \A main \in StageMains :
            pb[c].pc = "main" /\ pb[c].prompt = StageTemplate(main) =>
               pb[c].compiled_prompt =
                  IF Active(pb[c].cache, sPromptTextActive)
                  THEN MainText(main, pb[c].cache) ELSE EmptyStr)
    /\ [][\A c \in DOMAIN pb : \A main \in StageMains :
            /\ pb[c].pc = "main"
            /\ pb'[c].pc = "extra"
            /\ pb[c].prompt = StageTemplate(main)
            /\ Active(pb[c].cache, sExtraActive)
            => pb'[c].extra_compiled = <<"e">> \o MainText(main, pb[c].cache)]_vars

\* the extra block was compiled with the main text while the main output is gated off
C30_Witness ==
    \E c \in DOMAIN pb :
       /\ pb[c].pc = "extra"
       /\ pb[c].prompt = StageTemplate(StageToggle)
       /\ ~Active(pb[c].cache, sPromptTextActive)
       /\ StringOf(pb[c].cache, nA) = <<"v">>
       /\ pb[c].compiled_prompt = EmptyStr
       /\ pb[c].extra_compiled = <<"e", "x", "v">>

====
